---- MODULE Spec2Model ----
(***************************************************************************)
(* A model of the Malis tree-walking interpreter.                          *)
(*                                                                         *)
(* Spec: the environment chain, block execution, user functions with their *)
(* closures, calls and the Return signal.  Statements are executed one per *)
(* step; the statement to execute next is chosen freely, so that every     *)
(* straight-line program over the bounded names and literals is explored.  *)
(* The resolver's scope stack is carried along, since the distances it     *)
(* records decide where the evaluator looks a variable up.                 *)
(*                                                                         *)
(* SpecClass: class declarations, instances, property reads and writes,    *)
(* class calls and super expressions, for a program that declares classes  *)
(* at top level and works on one variable.                                 *)
(*                                                                         *)
(* SpecLogical: the evaluation of expressions built with `and` and `or`.   *)
(*                                                                         *)
(* SpecOperators: the unary operators and the comparisons on every kind of *)
(* value.                                                                  *)
(*                                                                         *)
(* SpecParser: Malis::run from the token sequence on: parsing, with its    *)
(* error recovery, then interpreting.                                      *)
(*                                                                         *)
(* SpecScanner: Scanner::scan_tokens on a string.                          *)
(*                                                                         *)
(* SpecResolver: the resolver's bookkeeping of the enclosing function and  *)
(* class, which decides where `return`, `self` and `super` are accepted.   *)
(*                                                                         *)
(* SpecBlocks: Parser::parse on token sequences with nested blocks.        *)
(*                                                                         *)
(* SpecScopes: the resolver's scope stack with the flags of every key:     *)
(* declarations, uses, and the checks made when a scope ends.              *)
(*                                                                         *)
(* SpecEnvironment: Environment::insert_at followed by get_at on a chain   *)
(* of environments.                                                        *)
(***************************************************************************)
EXTENDS Integers, Sequences, FiniteSets, TLC

(***************************************************************************)
(* Bounds of the exploration.                                              *)
(***************************************************************************)
MaxNum == 2
MaxDepth == 2
MaxFuncs == 2
MaxDecls == 3
MaxSteps == 6
MaxClasses == 3
MaxBlocks == 2
MaxTokens == 4
MaxLen == 3
MaxNest == 4
MaxChain == 3
MaxBody == 2
MaxBlockDepth == 2
MaxScopes == 5
MaxVisits == 6

(***************************************************************************)
(* Names and runtime values (interpreter/object.rs, enum MalisObject).     *)
(***************************************************************************)
VarNames == {"a"}
ParamNames == {"p"}
FunNames == {"f"}
Names == VarNames \cup ParamNames \cup FunNames \cup {"clock"}

\* The parameter lists a function declaration can have.
ParamLists == {<<>>, <<"p">>}

Nil == [kind |-> "nil", n |-> 0]
NoVal == [kind |-> "absent", n |-> 0]
Num(i) == [kind |-> "num", n |-> i]
Fn(id) == [kind |-> "fn", n |-> id]
Clock == [kind |-> "native", n |-> 0]
Bool(b) == [kind |-> "bool", n |-> IF b THEN 1 ELSE 0]
Class(c) == [kind |-> "class", n |-> c]
\* The strings "a" (1) and "b" (2).
Str(i) == [kind |-> "string", n |-> i]

Literals == {Num(i) : i \in 1..MaxNum}

\* A binding carries its value and the number of the declaration that made it.
Bind(v, o) == [v |-> v, o |-> o]
NoBinding == Bind(NoVal, 0)

EmptyEnv == [nm \in Names |-> NoBinding]
GlobalsEnv == [EmptyEnv EXCEPT !["clock"] = Bind(Clock, 0)]

Front(s) == SubSeq(s, 1, Len(s) - 1)

(***************************************************************************)
(* Environment (environment.rs).  An environment and its chain of          *)
(* enclosing environments is a sequence of scopes, the innermost last.     *)
(***************************************************************************)
\* Environment::define: binds the name in the innermost scope, overwriting.
define(env, name, value, o) ==
    [env EXCEPT ![Len(env)] = [@ EXCEPT ![name] = Bind(value, o)]]

\* Environment::get: the innermost scope that binds the name decides;
\* NoBinding stands for Err(UndefinedVariable).
RECURSIVE get(_, _)
get(env, name) ==
    IF env = <<>> THEN NoBinding
    ELSE IF env[Len(env)][name].v # NoVal THEN env[Len(env)][name]
    ELSE get(Front(env), name)

\* Environment::get_at: walks up while distance > 1, then a plain get;
\* NoBinding also stands for Err(InvalidDistance).
RECURSIVE get_at(_, _, _)
get_at(env, distance, name) ==
    IF distance > 1
    THEN IF Len(env) > 1 THEN get_at(Front(env), distance - 1, name)
         ELSE NoBinding
    ELSE get(env, name)

\* A variant of insert that defines the name in the outermost environment
\* when no environment binds it.
RECURSIVE insert_defining(_, _, _)
insert_defining(env, name, value) ==
    IF env = <<>> THEN [ok |-> FALSE, env |-> env]
    ELSE IF env[Len(env)][name].v # NoVal
    THEN [ok |-> TRUE,
          env |-> [env EXCEPT ![Len(env)] =
                      [@ EXCEPT ![name] = Bind(value, @.o)]]]
    ELSE IF Len(env) = 1
    THEN [ok |-> TRUE,
          env |-> [env EXCEPT ![1] = [@ EXCEPT ![name] = Bind(value, 0)]]]
    ELSE LET r == insert_defining(Front(env), name, value)
         IN  [ok |-> r.ok, env |-> Append(r.env, env[Len(env)])]

\* Environment::insert: overwrites the innermost existing binding of the
\* name; ok = FALSE stands for Err(UndefinedVariable).
RECURSIVE insert(_, _, _)
insert(env, name, value) ==
    IF env = <<>> THEN [ok |-> FALSE, env |-> env]
    ELSE IF env[Len(env)][name].v # NoVal
    THEN [ok |-> TRUE,
          env |-> [env EXCEPT ![Len(env)] =
                      [@ EXCEPT ![name] = Bind(value, @.o)]]]
    ELSE LET r == insert(Front(env), name, value)
         IN  [ok |-> r.ok, env |-> Append(r.env, env[Len(env)])]

\* Environment::insert_at: walks up exactly distance links, then insert.
RECURSIVE insert_at(_, _, _, _)
insert_at(env, distance, name, value) ==
    IF distance # 0
    THEN IF Len(env) > 1
         THEN LET r == insert_at(Front(env), distance - 1, name, value)
              IN  [ok |-> r.ok, env |-> Append(r.env, env[Len(env)])]
         ELSE [ok |-> FALSE, env |-> env]
    ELSE insert(env, name, value)

(***************************************************************************)
(* Resolver (resolver.rs): the stack of scopes, innermost last.  Only the  *)
(* keys of each scope matter for the distances it records.                 *)
(***************************************************************************)
\* Resolver::resolve_local: the distance of the innermost scope holding the
\* name, or -1 when no scope holds it (no entry is recorded).
RECURSIVE resolve_local(_, _)
resolve_local(scs, name) ==
    IF scs = <<>> THEN -1
    ELSE IF name \in scs[Len(scs)] THEN 0
    ELSE LET d == resolve_local(Front(scs), name)
         IN  IF d = -1 THEN -1 ELSE d + 1

\* Resolver::visit_variable marks the name in the innermost scope (it
\* inserts the key there) before resolve_local runs.
mark_accessed(scs, name) ==
    [scs EXCEPT ![Len(scs)] = @ \cup {name}]

\* Resolver::declare followed by Resolver::define in the innermost scope.
declare(scs, name) ==
    [scs EXCEPT ![Len(scs)] = @ \cup {name}]

\* Resolver::begin_scope.
begin_scope(scs) == Append(scs, {})

\* Resolver::visit_return_stmt: whether the return is accepted.  It is
\* rejected when no function is being resolved; nothing else is looked at,
\* neither the value nor the name of the function.
visit_return_stmt(function_type, has_value) == function_type # "None"

(***************************************************************************)
(* Values as callees (interpreter/object.rs).                              *)
(***************************************************************************)
\* MalisObject::is_callable.
is_callable(v) == v.kind \in {"native", "fn", "class"}

\* A variant of the arity check that lets every argument count through.
arity_matches_any(argc, arity) == TRUE

\* The arity check of Interpreter::visit_call.
arity_matches(argc, arity) == argc = arity

\* A variant of the match that drops the value a Return signal carries.
call_value_nil(sig) == Nil

\* The match on the body's outcome in UserFunction::call: a normal end gives
\* Nil, a Return signal gives the value it carries.
call_value(sig) == IF sig.kind = "return" THEN sig.v ELSE Nil

\* A variant in which the call runs in a child of the caller's environment
\* (dynamic scoping).
call_parent_dynamic(closure, current) == current

\* The parent of the environment a call runs in (UserFunction::call): a
\* copy of the closure, whatever environment the caller is in.
call_parent(closure, current) == closure

\* Interpreter::execute_block, entry: the current environment becomes a new
\* empty one whose enclosing environment is parent_env.
execute_block_enter(parent_env) == Append(parent_env, EmptyEnv)

\* A variant in which the block's environment stays the current one.
execute_block_exit_keep(env) == env

\* Interpreter::execute_block, end of the statement loop: the enclosing
\* environment is taken back as the current one.
execute_block_exit(env) == Front(env)

\* Interpreter::execute_block, a statement failed: `?` returns the error at
\* once, the current environment stays what it is.
execute_block_fail(env) == env

(***************************************************************************)
(* The interpreter's state.                                                *)
(***************************************************************************)
VARIABLES
    environment,  \* Interpreter.environment: the current chain
    scopes,       \* the resolver's scope stack at the statement being run
    frames,       \* the execute_block / call activations, innermost last
    functions,    \* the user functions declared so far, by number
    ndecl,        \* declarations made so far
    status,       \* "running", "unwinding" (a signal propagates), "error"
    signal,       \* the RuntimeError that propagates, Return(v) included
    lastExit,     \* the last return of execute_block for a block statement
    lastRead,     \* the last variable read
    lastCall,     \* the last completed user function call
    attempt,      \* the last call expression evaluated
    steps,        \* statements started so far
    classTable,   \* the classes declared so far, by number
    cenv,         \* the environment of a program that declares classes
    cstatus,      \* "running" or "error" for that program
    written,      \* per field, the value last written through the variable
    lastGet,      \* the last property read
    lastSuper,    \* the last super expression evaluated
    expr,         \* the expression given to Interpreter::evaluate
    outcome,      \* what its evaluation gave
    lastAssign,   \* the last assignment evaluated
    lastNew,      \* the last class call evaluated
    current_function, \* Resolver.current_function
    current_class,    \* Resolver.current_class
    nesting,      \* the declarations the resolver is inside of, innermost last
    resolved,     \* the last expression or statement the resolver visited
    data,         \* Scanner.data: the characters to scan
    scanned,      \* what Scanner::scan_tokens returned
    tokens,       \* Parser.tokens
    ran,          \* what Malis::run did with them
    scope_stack,  \* Resolver.scopes with the flags of every key
    declared_in,  \* per scope, the names the program declares in it
    resolution,   \* what the resolver's last step did
    env_chain,    \* an Environment with its enclosing environments
    probe,        \* what insert_at and get_at did on it
    program       \* the statements whose text the tokens are

interpVars == <<environment, scopes, frames, functions, ndecl, status, signal,
                lastExit, lastRead, lastCall, attempt, steps, lastAssign>>
classVars == <<classTable, cenv, cstatus, written, lastGet, lastSuper,
               lastNew>>
logicalVars == <<expr, outcome>>
resolverVars == <<current_function, current_class, nesting, resolved>>
scannerVars == <<data, scanned>>
parserVars == <<tokens, ran>>
scopeVars == <<scope_stack, declared_in, resolution>>
envVars == <<env_chain, probe>>
blockVars == <<program>>
extraVars == <<scopeVars, envVars, blockVars>>
otherVars == <<resolverVars, scannerVars, parserVars, extraVars>>
vars == <<interpVars, classVars, logicalVars, otherVars>>

NoSignal == [kind |-> "none", v |-> Nil]
ErrorSignal == [kind |-> "error", v |-> Nil]
ReturnSignal(v) == [kind |-> "return", v |-> v]

NoExit == [how |-> "none", saved |-> <<>>, after |-> <<>>,
           assigned |-> {}, declared |-> {}]
NoRead == [fn |-> 0, name |-> "a", b |-> NoBinding, local |-> FALSE,
           outer |-> NoBinding]
NoCall == [how |-> "none", v |-> Nil, sent |-> Nil, depth |-> 0,
           level |-> 0, inner |-> 0]
NoAttempt == [callee |-> NoVal, argc |-> 0, entered |-> FALSE,
              failed |-> FALSE, bound |-> 0]
NoAssign == [name |-> "none", ok |-> FALSE, before |-> <<>>, after |-> <<>>]

BlockFrame(env, scs) ==
    [kind |-> "block", saved |-> env, savedScopes |-> scs, fn |-> 0,
     argc |-> 0, base |-> 0, assigned |-> {}, declared |-> {}]
CallFrame(env, scs, id, argc, base) ==
    [kind |-> "call", saved |-> env, savedScopes |-> scs, fn |-> id,
     argc |-> argc, base |-> base, assigned |-> {}, declared |-> {}]

(***************************************************************************)
(* Classes and instances (interpreter/malis_class.rs).                     *)
(***************************************************************************)
\* The names classes are declared with, in the order of declaration.
ClassNameSeq == <<"A", "B", "C", "D">>
ClassEnvNames == {ClassNameSeq[i] : i \in 1..Len(ClassNameSeq)}
                    \cup {"o", "self", "super", "clock"}
FieldNames == {"m"}
MethodNames == {"m", "t", "init"}

EmptyClassEnv == [nm \in ClassEnvNames |-> NoBinding]
GlobalsClassEnv == [EmptyClassEnv EXCEPT !["clock"] = Bind(Clock, 0)]

\* MalisInstance::new: an instance of class c without fields.
NoFields == [f \in FieldNames |-> NoVal]
Instance(c, fields) == [kind |-> "instance", n |-> c, fields |-> fields]

\* A UserFunction that is the method `name` declared in class `owner`, bound
\* to the instance `self`.
Bound(owner, name, self) ==
    [kind |-> "fn", n |-> owner, name |-> name, self |-> self]

NoGet == [key |-> "none", ok |-> FALSE, v |-> NoVal, recv |-> NoVal]
NoSuper == [evaluated |-> FALSE, ok |-> FALSE, v |-> NoVal, cls |-> 0,
            recv |-> NoVal, name |-> "none", depth |-> 0]
NoNew == [called |-> FALSE, cls |-> 0, argc |-> 0, arity |-> 0, ok |-> FALSE,
          v |-> NoVal, init |-> 0, body |-> "none"]

\* No program with classes runs.
ClassIdle ==
    /\ classTable = <<>>
    /\ cenv = <<GlobalsClassEnv, EmptyClassEnv>>
    /\ cstatus = "running"
    /\ written = NoFields
    /\ lastGet = NoGet
    /\ lastSuper = NoSuper
    /\ lastNew = NoNew

(***************************************************************************)
(* Expressions with logical operators (ast.rs, enum Expr).                 *)
(***************************************************************************)
Lit(v, site) == [node |-> "literal", v |-> v, site |-> site]
DivExpr(d, site) == [node |-> "binary", d |-> d, site |-> site]
Logical(op, left, right) ==
    [node |-> "logical", op |-> op, left |-> left, right |-> right]
Unary(op, right) == [node |-> "unary", op |-> op, right |-> right]
Binary(op, left, right) ==
    [node |-> "binary_op", op |-> op, left |-> left, right |-> right]
Ternary(first, second, third) ==
    [node |-> "ternary", first |-> first, second |-> second,
     third |-> third]

NoExpr == Lit(Nil, 0)
NoOutcome == [done |-> FALSE, ok |-> FALSE, v |-> NoVal, visited |-> {}]

\* The resolver, the scanner and the parser have nothing to work on.
ResolverIdle ==
    /\ current_function = "None"
    /\ current_class = "None"
    /\ nesting = <<>>
    /\ resolved = NoVal

ScannerIdle ==
    /\ data = <<>>
    /\ scanned = NoVal

ScopesIdle ==
    /\ scope_stack = <<>>
    /\ declared_in = <<>>
    /\ resolution = NoVal

EnvIdle ==
    /\ env_chain = <<>>
    /\ probe = NoVal

BlocksIdle == program = NoVal

ExtraIdle == ScopesIdle /\ EnvIdle /\ BlocksIdle

ParserIdle ==
    /\ tokens = <<>>
    /\ ran = NoVal

OtherIdle ==
    /\ ResolverIdle
    /\ ScannerIdle
    /\ ParserIdle
    /\ ExtraIdle

\* No expression is being evaluated.
LogicalIdle ==
    /\ expr = NoExpr
    /\ outcome = NoOutcome

\* Interpreter::new: the globals hold clock, and the current environment is
\* a fresh one enclosed by the globals.  Resolver::resolve opens one scope.
InterpInit ==
    /\ environment = <<GlobalsEnv, EmptyEnv>>
    /\ scopes = <<{}>>
    /\ frames = <<>>
    /\ functions = <<>>
    /\ ndecl = 0
    /\ status = "running"
    /\ signal = NoSignal
    /\ lastExit = NoExit
    /\ lastRead = NoRead
    /\ lastCall = NoCall
    /\ attempt = NoAttempt
    /\ steps = 0
    /\ lastAssign = NoAssign

Init ==
    /\ InterpInit
    /\ ClassIdle
    /\ LogicalIdle
    /\ OtherIdle

\* The index of the innermost call frame, 0 at top level.
RECURSIVE call_index(_)
call_index(fs) ==
    IF fs = <<>> THEN 0
    ELSE IF fs[Len(fs)].kind = "call" THEN Len(fs)
    ELSE call_index(Front(fs))

\* The function whose body is running, 0 at top level.
current_fn == IF call_index(frames) = 0 THEN 0
              ELSE frames[call_index(frames)].fn

\* The length of the chain below the environment of the running call's
\* parameters: the copy of the closure.
closure_len == IF current_fn = 0 THEN 0
               ELSE frames[call_index(frames)].base

\* A runtime error is raised by the statement being executed.
Raise ==
    /\ status' = "unwinding"
    /\ signal' = ErrorSignal

\* Malis::run: the program is resolved before it is interpreted, and a
\* program the resolver does not accept is not interpreted at all.
run_executes(accepted) == accepted

\* The origin given to the bindings of parameters.
ParamOrigin == MaxDecls + 1

ArgLists == {<<>>} \cup {<<v>> : v \in Literals}

\* Interpreter::lookup_variable: with a recorded distance the variable is
\* fetched that many environments up, without one from the globals.
lookup_variable(env, distance, name) ==
    IF distance >= 0 THEN get_at(env, distance, name)
    ELSE get(<<GlobalsEnv>>, name)

\* Interpreter::visit_assign: insert_at with the recorded distance, insert
\* into the globals without one.
assign_variable(env, distance, name, value) ==
    IF distance >= 0 THEN insert_at(env, distance, name, value)
    ELSE [ok |-> insert(<<GlobalsEnv>>, name, value).ok, env |-> env]

\* The ghost sets of the frames above the innermost call are extended.
note_assigned(fs, name) ==
    [i \in 1..Len(fs) |->
        IF i > call_index(fs) THEN [fs[i] EXCEPT !.assigned = @ \cup {name}]
        ELSE fs[i]]

note_declared(fs, name) ==
    IF fs = <<>> THEN fs
    ELSE [fs EXCEPT ![Len(fs)].declared = @ \cup {name}]

\* What the ghost variables hold after a step: the record of the event the
\* step was, and nothing for the others.
Ghosts(e, r, c, t) ==
    /\ lastExit' = e
    /\ lastRead' = r
    /\ lastCall' = c
    /\ attempt' = t
    /\ lastAssign' = NoAssign

\* Interpreter::visit_var_stmt, `var name = v;` (v = Nil without an
\* initializer).  Resolver::declare rejects a second declaration of the
\* name in the same scope, so such a program is never run.  (A program
\* whose scopes end with a declared name unused is rejected as well; every
\* run here is the beginning of a program that goes on to use its names.)
VarStmt(name, v) ==
    /\ UNCHANGED <<classVars, logicalVars, otherVars>>
    /\ status = "running"
    /\ steps < MaxSteps
    /\ steps' = steps + 1
    /\ ndecl < MaxDecls
    /\ run_executes(name \notin scopes[Len(scopes)])
    /\ environment' = define(environment, name, v, ndecl + 1)
    /\ scopes' = declare(scopes, name)
    /\ ndecl' = ndecl + 1
    /\ frames' = note_declared(frames, name)
    /\ Ghosts(NoExit, NoRead, NoCall, NoAttempt)
    /\ UNCHANGED <<functions, status, signal>>

\* Interpreter::visit_print_stmt of a variable, `print name;`.
PrintVar(name) ==
    /\ UNCHANGED <<classVars, logicalVars, otherVars>>
    /\ status = "running"
    /\ steps < MaxSteps
    /\ steps' = steps + 1
    /\ LET scs == mark_accessed(scopes, name)
           b == lookup_variable(environment, resolve_local(scs, name), name)
       IN  IF b = NoBinding
           THEN /\ Raise
                /\ lastRead' = NoRead
                /\ UNCHANGED scopes
           ELSE /\ scopes' = scs
                /\ lastRead' =
                     [fn |-> current_fn, name |-> name, b |-> b,
                      local |-> \E i \in (closure_len + 1)..Len(environment) :
                                    environment[i][name].v # NoVal,
                      outer |-> IF current_fn = 0 THEN NoBinding
                                ELSE get(frames[call_index(frames)].saved,
                                         name)]
                /\ UNCHANGED <<status, signal>>
    /\ lastExit' = NoExit
    /\ lastCall' = NoCall
    /\ attempt' = NoAttempt
    /\ lastAssign' = NoAssign
    /\ UNCHANGED <<environment, frames, functions, ndecl>>

\* Interpreter::visit_assign with a literal right-hand side, `name = v;`.
AssignStmt(name, v) ==
    /\ UNCHANGED <<classVars, logicalVars, otherVars>>
    /\ status = "running"
    /\ steps < MaxSteps
    /\ steps' = steps + 1
    /\ LET r == assign_variable(environment, resolve_local(scopes, name),
                                name, v)
       IN  /\ environment' = r.env
           /\ lastAssign' = [name |-> name, ok |-> r.ok,
                             before |-> environment, after |-> r.env]
           /\ IF r.ok
              THEN /\ frames' = note_assigned(frames, name)
                   /\ UNCHANGED <<status, signal>>
              ELSE /\ Raise
                   /\ UNCHANGED frames
    /\ lastExit' = NoExit
    /\ lastRead' = NoRead
    /\ lastCall' = NoCall
    /\ attempt' = NoAttempt
    /\ UNCHANGED <<scopes, functions, ndecl>>

\* Interpreter::visit_block_stmt, `{`: execute_block is entered with the
\* current environment as parent.  Resolver::visit_block_stmt opens a scope
\* and Resolver::resolve opens another one.
EnterBlock ==
    /\ UNCHANGED <<classVars, logicalVars, otherVars>>
    /\ status = "running"
    /\ steps < MaxSteps
    /\ steps' = steps + 1
    /\ Len(frames) < MaxDepth
    /\ frames' = Append(frames, BlockFrame(environment, scopes))
    /\ environment' = execute_block_enter(environment)
    /\ scopes' = begin_scope(begin_scope(scopes))
    /\ Ghosts(NoExit, NoRead, NoCall, NoAttempt)
    /\ UNCHANGED <<functions, ndecl, status, signal>>

\* `}`: the statements of the block are done, execute_block returns Ok.
ExitBlock ==
    /\ UNCHANGED <<classVars, logicalVars, otherVars>>
    /\ UNCHANGED steps
    /\ status = "running"
    /\ frames # <<>>
    /\ frames[Len(frames)].kind = "block"
    /\ LET fr == frames[Len(frames)]
           rest == Front(frames)
       IN  /\ environment' = execute_block_exit(environment)
           /\ scopes' = fr.savedScopes
           /\ frames' = IF rest = <<>> \/ rest[Len(rest)].kind = "call"
                        THEN rest
                        ELSE [rest EXCEPT ![Len(rest)].assigned =
                                 @ \cup fr.assigned]
           /\ Ghosts([how |-> "normal", saved |-> fr.saved,
                      after |-> environment', assigned |-> fr.assigned,
                      declared |-> fr.declared],
                     NoRead, NoCall, NoAttempt)
    /\ UNCHANGED <<functions, ndecl, status, signal>>

\* MalisCallable::arity of a callable value.
arity(v) == IF v.kind = "fn" THEN Len(functions[v.n].params) ELSE 0

\* UserFunction::call, the parameters: each parameter is defined with its
\* argument in a new environment whose enclosing one is the parent.
RECURSIVE bind_params(_, _, _)
bind_params(env, params, args) ==
    IF params = <<>> \/ args = <<>> THEN env
    ELSE bind_params(define(env, params[1], args[1], ParamOrigin),
                     Tail(params), Tail(args))

\* Resolver::resolve_function: a scope with the parameters declared, and
\* the scope Resolver::resolve opens for the body.
RECURSIVE declare_all(_, _)
declare_all(scs, params) ==
    IF params = <<>> THEN scs
    ELSE declare_all(declare(scs, params[1]), Tail(params))

resolve_function(scs, params) ==
    begin_scope(declare_all(begin_scope(scs), params))

\* UserFunction::call, after the body: the enclosing environment of the
\* call's environment is taken and stored back as the function's closure.
store_closure(fns, id, env, base) ==
    [fns EXCEPT ![id].closure = SubSeq(env, 1, base)]

\* The interpreter's environment once a call has returned: the caller's.
restore_caller(fr) == fr.saved

\* Interpreter::visit_function, `fun name(params) { ... }`: the function is
\* defined in the current environment and its closure is a copy of that
\* environment taken right after.
FunStmt(name, params) ==
    /\ UNCHANGED <<classVars, logicalVars, otherVars>>
    /\ status = "running"
    /\ steps < MaxSteps
    /\ steps' = steps + 1
    /\ ndecl < MaxDecls
    /\ Len(functions) < MaxFuncs
    /\ run_executes(name \notin scopes[Len(scopes)])
    /\ LET id == Len(functions) + 1
           env == define(environment, name, Fn(id), ndecl + 1)
           scs == declare(scopes, name)
       IN  /\ environment' = env
           /\ scopes' = scs
           /\ functions' = Append(functions,
                 [closure |-> env, scopes |-> scs, params |-> params,
                  visible |-> [nm \in Names |-> get(env, nm).o]])
    /\ ndecl' = ndecl + 1
    /\ frames' = note_declared(frames, name)
    /\ Ghosts(NoExit, NoRead, NoCall, NoAttempt)
    /\ UNCHANGED <<status, signal>>

\* Interpreter::visit_call of `name(args)` with literal arguments.
CallStmt(name, args) ==
    /\ UNCHANGED <<classVars, logicalVars, otherVars>>
    /\ status = "running"
    /\ steps < MaxSteps
    /\ steps' = steps + 1
    /\ LET scs == mark_accessed(scopes, name)
           b == lookup_variable(environment, resolve_local(scs, name), name)
           callee == b.v
           argc == Len(args)
       IN  IF b = NoBinding
           THEN /\ Raise
                /\ attempt' = NoAttempt
                /\ UNCHANGED <<environment, scopes, frames>>
           ELSE IF ~is_callable(callee) \/ ~arity_matches(argc, arity(callee))
           THEN /\ Raise
                /\ attempt' = [callee |-> callee, argc |-> argc,
                               entered |-> FALSE, failed |-> TRUE,
                               bound |-> 0]
                /\ UNCHANGED <<environment, scopes, frames>>
           ELSE IF callee.kind = "native"
           THEN /\ scopes' = scs
                /\ attempt' = [callee |-> callee, argc |-> argc,
                               entered |-> FALSE, failed |-> FALSE,
                               bound |-> 0]
                /\ UNCHANGED <<environment, frames, status, signal>>
           ELSE /\ callee.kind = "fn"
                /\ Len(frames) < MaxDepth
                /\ LET fn == functions[callee.n]
                       parent == call_parent(fn.closure, environment)
                       callEnv == bind_params(Append(parent, EmptyEnv),
                                              fn.params, args)
                   IN  /\ environment' = execute_block_enter(callEnv)
                       /\ frames' = Append(frames,
                             CallFrame(environment, scs, callee.n, argc,
                                       Len(parent)))
                       /\ scopes' = resolve_function(fn.scopes, fn.params)
                       /\ attempt' =
                            [callee |-> callee, argc |-> argc,
                             entered |-> TRUE, failed |-> FALSE,
                             bound |-> IF Len(fn.params) < argc
                                       THEN Len(fn.params) ELSE argc]
                /\ UNCHANGED <<status, signal>>
    /\ lastExit' = NoExit
    /\ lastRead' = NoRead
    /\ lastCall' = NoCall
    /\ lastAssign' = NoAssign
    /\ UNCHANGED <<functions, ndecl>>

\* Interpreter::visit_return_stmt, `return v;` (v = Nil for a bare return)
\* raises the Return signal.  Resolver::visit_return_stmt rejects a return
\* outside of every function, and the program is resolved before it is
\* run, so such a program is never run.
ReturnStmt(v) ==
    /\ UNCHANGED <<classVars, logicalVars, otherVars>>
    /\ status = "running"
    /\ steps < MaxSteps
    /\ steps' = steps + 1
    /\ run_executes(current_fn # 0)
    /\ status' = "unwinding"
    /\ signal' = ReturnSignal(v)
    /\ Ghosts(NoExit, NoRead,
              [how |-> "pending", v |-> Nil, sent |-> v, depth |-> 0,
               level |-> call_index(frames),
               inner |-> Len(frames) - call_index(frames)],
              NoAttempt)
    /\ UNCHANGED <<environment, scopes, frames, functions, ndecl>>

\* The body of the running function ends: execute_block returns Ok and
\* UserFunction::call returns Nil after storing the closure back.
EndBody ==
    /\ UNCHANGED <<classVars, logicalVars, otherVars>>
    /\ UNCHANGED steps
    /\ status = "running"
    /\ frames # <<>>
    /\ frames[Len(frames)].kind = "call"
    /\ LET fr == frames[Len(frames)]
       IN  /\ functions' = store_closure(functions, fr.fn,
                                         execute_block_exit(environment),
                                         fr.base)
           /\ environment' = restore_caller(fr)
           /\ scopes' = fr.savedScopes
           /\ frames' = Front(frames)
           /\ Ghosts(NoExit, NoRead,
                     [how |-> "end", v |-> call_value(NoSignal),
                      sent |-> Nil, depth |-> Len(frames'),
                      level |-> Len(frames), inner |-> 0],
                     NoAttempt)
    /\ UNCHANGED <<ndecl, status, signal>>

\* A signal leaves a block statement: execute_block returns Err.
UnwindBlock ==
    /\ UNCHANGED <<classVars, logicalVars, otherVars>>
    /\ UNCHANGED steps
    /\ status = "unwinding"
    /\ frames # <<>>
    /\ frames[Len(frames)].kind = "block"
    /\ LET fr == frames[Len(frames)]
       IN  /\ environment' = execute_block_fail(environment)
           /\ lastExit' = [how |-> signal.kind, saved |-> fr.saved,
                           after |-> environment',
                           assigned |-> fr.assigned,
                           declared |-> fr.declared]
    /\ frames' = Front(frames)
    /\ lastRead' = NoRead
    /\ attempt' = NoAttempt
    /\ lastAssign' = NoAssign
    /\ UNCHANGED <<scopes, functions, ndecl, status, signal, lastCall>>

\* A signal reaches UserFunction::call: the closure is stored back, a
\* Return signal becomes the value of the call, an error goes on.
UnwindCall ==
    /\ UNCHANGED <<classVars, logicalVars, otherVars>>
    /\ UNCHANGED steps
    /\ status = "unwinding"
    /\ frames # <<>>
    /\ frames[Len(frames)].kind = "call"
    /\ LET fr == frames[Len(frames)]
       IN  /\ functions' = store_closure(functions, fr.fn, environment,
                                         fr.base)
           /\ environment' = restore_caller(fr)
           /\ frames' = Front(frames)
           /\ IF signal.kind = "return"
              THEN /\ status' = "running"
                   /\ signal' = NoSignal
                   /\ scopes' = fr.savedScopes
                   /\ lastCall' = [lastCall EXCEPT
                                      !.how = "return",
                                      !.v = call_value(signal),
                                      !.depth = Len(frames')]
              ELSE /\ lastCall' = NoCall
                   /\ UNCHANGED <<status, signal, scopes>>
    /\ lastExit' = NoExit
    /\ lastRead' = NoRead
    /\ attempt' = NoAttempt
    /\ lastAssign' = NoAssign
    /\ UNCHANGED ndecl

\* An error reaches Interpreter::interpret, which returns it: the run ends.
UnwindTop ==
    /\ UNCHANGED <<classVars, logicalVars, otherVars>>
    /\ UNCHANGED steps
    /\ status = "unwinding"
    /\ frames = <<>>
    /\ status' = "error"
    /\ Ghosts(NoExit, NoRead, NoCall, NoAttempt)
    /\ UNCHANGED <<environment, scopes, frames, functions, ndecl, signal>>

Next ==
    \/ \E name \in VarNames, v \in Literals \cup {Nil} : VarStmt(name, v)
    \/ \E name \in VarNames \cup ParamNames \cup FunNames : PrintVar(name)
    \/ \E name \in VarNames \cup FunNames, v \in Literals :
          AssignStmt(name, v)
    \/ EnterBlock
    \/ ExitBlock
    \/ \E name \in FunNames, params \in ParamLists : FunStmt(name, params)
    \/ \E name \in VarNames \cup FunNames \cup {"clock"}, args \in ArgLists :
          CallStmt(name, args)
    \/ \E v \in Literals \cup {Nil} : ReturnStmt(v)
    \/ EndBody
    \/ UnwindBlock
    \/ UnwindCall
    \/ UnwindTop

Spec == Init /\ [][Next]_vars

(***************************************************************************)
(* Evaluation of logical expressions (interpreter/visit.rs).               *)
(***************************************************************************)
\* MalisObject::is_truthy: false and nil are falsy, every other value is
\* truthy.
is_truthy(v) ==
    IF v.kind = "bool" THEN v.n = 1
    ELSE IF v.kind = "nil" THEN FALSE
    ELSE TRUE

\* A variant with the two branches exchanged.
not_inverted(v) == IF is_truthy(v) THEN Bool(TRUE) ELSE Bool(FALSE)

\* impl Not for MalisObject.
not(v) == IF is_truthy(v) THEN Bool(FALSE) ELSE Bool(TRUE)

\* impl Neg for MalisObject: only a number is negated.
neg(v) ==
    IF v.kind = "num" THEN [ok |-> TRUE, v |-> Num(0 - v.n)]
    ELSE [ok |-> FALSE, v |-> NoVal]

\* The position of a value's variant in enum MalisObject.
discriminant(v) ==
    CASE v.kind = "bool" -> 0
      [] v.kind = "num" -> 1
      [] v.kind = "string" -> 2
      [] v.kind = "native" -> 3
      [] v.kind = "fn" -> 4
      [] v.kind = "class" -> 5
      [] v.kind = "instance" -> 6
      [] v.kind = "nil" -> 7

\* Ord::cmp of two integers.
cmp(a, b) == IF a < b THEN "Less" ELSE IF a > b THEN "Greater" ELSE "Equal"

\* The derived PartialOrd of MalisObject: values of different variants are
\* ordered by the position of their variants, values of one variant by
\* their contents.  UserFunction::partial_cmp gives None; a native
\* function, a class without methods and an instance without fields are
\* equal to themselves.
partial_cmp(l, r) ==
    IF discriminant(l) # discriminant(r)
    THEN cmp(discriminant(l), discriminant(r))
    ELSE IF l.kind \in {"bool", "num", "string"} THEN cmp(l.n, r.n)
    ELSE IF l.kind = "fn" THEN "None"
    ELSE "Equal"

\* PartialOrd::gt, ge, lt and le, by the operator's lexeme.
compare(op, l, r) ==
    LET ordering == partial_cmp(l, r)
    IN  CASE op = ">" -> ordering = "Greater"
          [] op = ">=" -> ordering \in {"Greater", "Equal"}
          [] op = "<" -> ordering = "Less"
          [] op = "<=" -> ordering \in {"Less", "Equal"}

\* A variant in which the right operand is always evaluated.
short_circuits_never(op, left_object_is_true) == FALSE

\* The match on the operator in visit_logical: whether the left operand is
\* returned without evaluating the right one.
short_circuits(op, left_object_is_true) ==
    \/ op = "or" /\ left_object_is_true
    \/ op = "and" /\ ~left_object_is_true

\* impl Div for MalisObject, for 1 / d: zero is an invalid denominator.
div(d) ==
    IF d = 0 THEN [ok |-> FALSE, v |-> NoVal] ELSE [ok |-> TRUE, v |-> Num(1 \div d)]

\* Interpreter::evaluate: the value of an expression, or the error it
\* raises, and the sites of the operands that were evaluated.
RECURSIVE evaluate(_)

\* Interpreter::visit_logical: the left operand is evaluated, its error
\* propagates; the operator decides whether it is the result; otherwise the
\* right operand is evaluated and is the result.
visit_logical(logical) ==
    LET left_object == evaluate(logical.left)
    IN  IF ~left_object.ok THEN left_object
        ELSE IF short_circuits(logical.op, is_truthy(left_object.v))
        THEN left_object
        ELSE LET right_object == evaluate(logical.right)
             IN  [ok |-> right_object.ok, v |-> right_object.v,
                  visited |-> left_object.visited
                                 \cup right_object.visited]

\* Interpreter::visit_unary: the operand is evaluated, then the operator is
\* applied to its value.
visit_unary(unary) ==
    LET right_malis_object == evaluate(unary.right)
    IN  IF ~right_malis_object.ok THEN right_malis_object
        ELSE IF unary.op = "-"
        THEN [ok |-> neg(right_malis_object.v).ok,
              v |-> neg(right_malis_object.v).v,
              visited |-> right_malis_object.visited]
        ELSE [ok |-> TRUE, v |-> not(right_malis_object.v),
              visited |-> right_malis_object.visited]

\* Interpreter::visit_binary with a comparison operator: both operands are
\* evaluated, left first, and the result is the boolean that gt, ge, lt or
\* le give for the two values.
visit_binary(binary) ==
    LET left_object == evaluate(binary.left)
        right_object == evaluate(binary.right)
    IN  IF ~left_object.ok THEN left_object
        ELSE IF ~right_object.ok
        THEN [ok |-> FALSE, v |-> NoVal,
              visited |-> left_object.visited \cup right_object.visited]
        ELSE [ok |-> TRUE,
              v |-> Bool(compare(binary.op, left_object.v, right_object.v)),
              visited |-> left_object.visited \cup right_object.visited]

\* Interpreter::visit_ternary: the condition is evaluated; a truthy one
\* selects the second operand, a falsy one the third.
visit_ternary(ternary) ==
    LET cond == evaluate(ternary.first)
    IN  IF ~cond.ok THEN cond
        ELSE LET chosen == IF is_truthy(cond.v)
                           THEN evaluate(ternary.second)
                           ELSE evaluate(ternary.third)
             IN  [ok |-> chosen.ok, v |-> chosen.v,
                  visited |-> cond.visited \cup chosen.visited]

evaluate(e) ==
    IF e.node = "literal"
    THEN [ok |-> TRUE, v |-> e.v, visited |-> {e.site}]
    ELSE IF e.node = "binary"
    THEN [ok |-> div(e.d).ok, v |-> div(e.d).v, visited |-> {e.site}]
    ELSE IF e.node = "unary" THEN visit_unary(e)
    ELSE IF e.node = "binary_op" THEN visit_binary(e)
    ELSE IF e.node = "ternary" THEN visit_ternary(e)
    ELSE visit_logical(e)

\* The operand sites of an expression.
RECURSIVE sites(_)
sites(e) ==
    IF e.node = "logical" THEN sites(e.left) \cup sites(e.right)
    ELSE IF e.node = "unary" THEN sites(e.right)
    ELSE IF e.node = "binary_op" THEN sites(e.left) \cup sites(e.right)
    ELSE IF e.node = "ternary"
    THEN sites(e.first) \cup sites(e.second) \cup sites(e.third)
    ELSE {e.site}

\* The operands: literals and the divisions 1 / 0 and 1 / 1.
LiteralValues == {Bool(TRUE), Bool(FALSE), Nil, Num(0)} \cup Literals
Operands(site) ==
    {Lit(v, site) : v \in LiteralValues} \cup {DivExpr(d, site) : d \in 0..1}
Operators == {"or", "and"}

\* `a op b` and `a op1 b op2 c` with the nesting on the left or the right.
LogicalExprs ==
    {Logical(op, l, r) : op \in Operators, l \in Operands(1),
                         r \in Operands(2)}
    \cup {Logical(op, Logical(op1, l, m), r) :
             op \in Operators, op1 \in Operators, l \in Operands(1),
             m \in Operands(2), r \in Operands(3)}
    \cup {Logical(op, l, Logical(op1, m, r)) :
             op \in Operators, op1 \in Operators, l \in Operands(1),
             m \in Operands(2), r \in Operands(3)}

InitLogical ==
    /\ InterpInit
    /\ ClassIdle
    /\ OtherIdle
    /\ expr \in LogicalExprs
    /\ outcome = NoOutcome

\* Interpreter::visit_expr_stmt of the expression.
EvaluateExpr ==
    /\ ~outcome.done
    /\ LET r == evaluate(expr)
       IN  outcome' = [done |-> TRUE, ok |-> r.ok, v |-> r.v,
                       visited |-> r.visited]
    /\ UNCHANGED <<expr, interpVars, classVars, otherVars>>

NextLogical == EvaluateExpr

SpecLogical == InitLogical /\ [][NextLogical]_vars

(***************************************************************************)
(* SpecOperators: the evaluation of `!`, `-` and the comparison operators  *)
(* on literal operands of every kind of value.                             *)
(***************************************************************************)
\* The values of the operands: booleans, nil, numbers, strings, the native
\* clock, a user function, a class without methods and an instance of it
\* without fields.
OperandValues ==
    {Bool(TRUE), Bool(FALSE), Nil, Clock, Fn(1), Class(1),
     Instance(1, NoFields)}
    \cup {Num(i) : i \in 0..MaxNum} \cup {Str(i) : i \in 1..2}

ComparisonOperators == {"<", "<=", ">", ">="}
UnaryOperators == {"!", "-"}

OperatorExprs ==
    {Unary(op, Lit(v, 1)) : op \in UnaryOperators, v \in OperandValues}
    \cup {Unary("!", Unary("!", Lit(v, 1))) : v \in OperandValues}
    \cup {Binary(op, Lit(l, 1), Lit(r, 2)) :
             op \in ComparisonOperators, l \in OperandValues,
             r \in OperandValues}

InitOperators ==
    /\ InterpInit
    /\ ClassIdle
    /\ OtherIdle
    /\ expr \in OperatorExprs
    /\ outcome = NoOutcome

NextOperators == EvaluateExpr

SpecOperators == InitOperators /\ [][NextOperators]_vars

(***************************************************************************)
(* SpecParser: Malis::run on a sequence of tokens (parser.rs, lib.rs).     *)
(* The tokens are `print`, `;`, `?`, `:` and literals, and the sequence    *)
(* ends with Eof, which is what Parser::tokens_left looks for.  The        *)
(* position `current` counts from 1.                                       *)
(***************************************************************************)
Tok(type) == [type |-> type, v |-> NoVal]
LitTok(v) == [type |-> "lit", v |-> v]

\* Parser::tokens_left: the token at `current` is not Eof.
tokens_left(toks, current) == toks[current].type # "Eof"

\* Parser::check.
check(toks, current, type) ==
    tokens_left(toks, current) /\ toks[current].type = type

\* Parser::advance: the position moves on unless the token is Eof.
advance(toks, current) ==
    IF tokens_left(toks, current) THEN current + 1 ELSE current

\* The result of a production: the node parsed and the position reached, or
\* the position at which a ParserError was returned.  With them go the
\* errors that were printed on the way and recovered from, for each one
\* where it was detected and where Parser::synchronize left the position,
\* and whether the production returned at all.
Parsed(node, current) ==
    [ok |-> TRUE, node |-> node, current |-> current, errors |-> 0,
     syncs |-> <<>>, ended |-> TRUE]
ParserError(current) ==
    [ok |-> FALSE, node |-> NoExpr, current |-> current, errors |-> 0,
     syncs |-> <<>>, ended |-> TRUE]

\* Parser::primary: a literal token gives a Literal and is consumed; of the
\* tokens here every other one is Err(NoPrimaryProduction).
primary(toks, current) ==
    IF toks[current].type = "lit"
    THEN Parsed(Lit(toks[current].v, current), advance(toks, current))
    ELSE ParserError(current)

\* Parser::logical_or: with no operator of a lower production among the
\* tokens, it gives what Parser::primary gives.
logical_or(toks, current) == primary(toks, current)

\* Parser::ternary, the loop: while the token is `?` it is consumed, an
\* operand is parsed, `:` is consumed (Err(MissingColon) without it),
\* another operand is parsed, and the expression so far becomes the first
\* operand of a new Ternary.
RECURSIVE ternary_loop(_, _, _)
ternary_loop(toks, first, current) ==
    IF ~check(toks, current, "?") THEN Parsed(first, current)
    ELSE LET variant1 == logical_or(toks, advance(toks, current))
         IN  IF ~variant1.ok THEN variant1
             ELSE IF ~check(toks, variant1.current, ":")
             THEN ParserError(variant1.current)
             ELSE LET variant2 ==
                          logical_or(toks, advance(toks, variant1.current))
                  IN  IF ~variant2.ok THEN variant2
                      ELSE ternary_loop(toks,
                                        Ternary(first, variant1.node,
                                                variant2.node),
                                        variant2.current)

\* Parser::ternary.
ternary(toks, current) ==
    LET first == logical_or(toks, current)
    IN  IF ~first.ok THEN first
        ELSE ternary_loop(toks, first.node, first.current)

\* Parser::separator and Parser::assignment: with no `,` and no `=` among
\* the tokens, the expression is what Parser::ternary gives.
separator(toks, current) == ternary(toks, current)

\* Parser::print_statement and Parser::expr_statement: an expression, then
\* `;` is consumed.
expr_statement(toks, current, kind) ==
    LET parsed == separator(toks, current)
    IN  IF ~parsed.ok THEN parsed
        ELSE IF ~check(toks, parsed.current, ";")
        THEN ParserError(parsed.current)
        ELSE Parsed([kind |-> kind, expr |-> parsed.node],
                    advance(toks, parsed.current))

\* Parser::synchronize: one token is skipped, then tokens are skipped up to
\* and including a `;`, or up to a keyword that starts a statement or Eof.
RECURSIVE synchronize_loop(_, _)
synchronize_loop(toks, current) ==
    IF ~tokens_left(toks, current) THEN current
    ELSE IF check(toks, current, ";") THEN advance(toks, current)
    ELSE IF toks[current].type = "print" THEN current
    ELSE synchronize_loop(toks, advance(toks, current))

synchronize(toks, current) ==
    synchronize_loop(toks, advance(toks, current))

\* Stmt::Block.
Block(statements) == [kind |-> "block", statements |-> statements]

\* A variant of push that puts the declaration in front.
push_front(statements, declaration) == <<declaration>> \o statements

\* `statements.push(declaration)` in Parser::parse and
\* Parser::block_statement.
push(statements, declaration) == Append(statements, declaration)

\* The productions that call one another, Parser::statement,
\* Parser::declaration and the loop of Parser::block_statement, as one
\* operator; `rule` names the production, and `statements`, `errors` and
\* `syncs` are what the loop has gathered so far.
\*
\* Parser::statement: `print` is consumed and starts a print statement, `{`
\* is consumed and starts a block, any other token here starts an
\* expression statement.
\*
\* Parser::declaration, with neither `var` nor `fun` among the tokens: a
\* statement is parsed; if that gave an error, it is printed, the parser
\* synchronizes and the declaration is None (ok = FALSE here).
\*
\* Parser::block_statement, the loop `while !self.any(&[&right_brace])?`:
\* a declaration is parsed and pushed if there is one; at `}` the loop
\* ends, the brace is consumed and the Block returned.  The position is all
\* the state the loop reads, so an iteration that leaves it where it was
\* with the loop's test still true is followed by the same iteration for
\* ever: the production does not return (ended = FALSE).
RECURSIVE parse_rule(_, _, _, _, _, _)
parse_rule(rule, toks, current, statements, errors, syncs) ==
    IF rule = "statement"
    THEN IF check(toks, current, "print")
         THEN expr_statement(toks, advance(toks, current), "print")
         ELSE IF check(toks, current, "{")
         THEN parse_rule("block_statement", toks, advance(toks, current),
                         <<>>, 0, <<>>)
         ELSE expr_statement(toks, current, "expr")
    ELSE IF rule = "declaration"
    THEN LET maybe_declaration ==
                 parse_rule("statement", toks, current, <<>>, 0, <<>>)
             to == synchronize(toks, maybe_declaration.current)
         IN  IF ~maybe_declaration.ended \/ maybe_declaration.ok
             THEN maybe_declaration
             ELSE [ok |-> FALSE, node |-> NoExpr, current |-> to,
                   errors |-> maybe_declaration.errors + 1,
                   syncs |-> Append(maybe_declaration.syncs,
                                    [at |-> maybe_declaration.current,
                                     to |-> to]),
                   ended |-> TRUE]
    ELSE IF check(toks, current, "}")
    THEN [ok |-> TRUE, node |-> Block(statements),
          current |-> advance(toks, current), errors |-> errors,
          syncs |-> syncs, ended |-> TRUE]
    ELSE LET d == parse_rule("declaration", toks, current, <<>>, 0, <<>>)
         IN  IF ~d.ended \/ d.current = current
             THEN [ok |-> FALSE, node |-> NoExpr, current |-> d.current,
                   errors |-> errors + d.errors, syncs |-> syncs \o d.syncs,
                   ended |-> FALSE]
             ELSE parse_rule(
                      "block_statement", toks, d.current,
                      IF d.ok THEN push(statements, d.node) ELSE statements,
                      errors + d.errors, syncs \o d.syncs)

\* Parser::statement.
statement(toks, current) ==
    parse_rule("statement", toks, current, <<>>, 0, <<>>)

\* Parser::declaration.
declaration(toks, current) ==
    parse_rule("declaration", toks, current, <<>>, 0, <<>>)

\* Parser::block_statement, entered after the `{`.
block_statement(toks, current) ==
    parse_rule("block_statement", toks, current, <<>>, 0, <<>>)

\* Parser::parse, the loop `while self.tokens_left()?`: a declaration is
\* parsed and pushed if there is one.  Parser::parse returns Ok with the
\* statements pushed.
RECURSIVE parse_loop(_, _, _, _, _)
parse_loop(toks, current, statements, errors, syncs) ==
    IF ~tokens_left(toks, current)
    THEN [statements |-> statements, errors |-> errors, syncs |-> syncs,
          ended |-> TRUE]
    ELSE LET d == declaration(toks, current)
         IN  IF ~d.ended
             THEN [statements |-> statements, errors |-> errors + d.errors,
                   syncs |-> syncs \o d.syncs, ended |-> FALSE]
             ELSE parse_loop(
                      toks, d.current,
                      IF d.ok THEN push(statements, d.node) ELSE statements,
                      errors + d.errors, syncs \o d.syncs)

\* Parser::parse.
parse(toks) == parse_loop(toks, 1, <<>>, 0, <<>>)

\* Interpreter::interpret: the statements are executed in order; what the
\* evaluation of each one's expression gave.
interpret(statements) ==
    [i \in 1..Len(statements) |-> evaluate(statements[i].expr)]

\* The literals of the programs.
TokenValues == {Bool(TRUE), Bool(FALSE), Num(1)}

\* Every sequence of at most MaxTokens tokens, and the statements
\* `print a ? b : c ? d : e;` for all literals; Eof ends each.
TokenAlphabet ==
    {Tok("print"), Tok(";"), Tok("?"), Tok(":"), LitTok(Bool(TRUE)),
     LitTok(Num(1))}

ShortPrograms ==
    UNION {[1..n -> TokenAlphabet] : n \in 0..MaxTokens}

ChainedTernary(a, b, c, d, e) ==
    <<Tok("print"), LitTok(a), Tok("?"), LitTok(b), Tok(":"), LitTok(c),
      Tok("?"), LitTok(d), Tok(":"), LitTok(e), Tok(";")>>

TernaryPrograms ==
    {ChainedTernary(a, b, c, d, e) :
        a \in TokenValues, b \in TokenValues, c \in TokenValues,
        d \in TokenValues, e \in TokenValues}

Programs ==
    {Append(text, Tok("Eof")) :
        text \in ShortPrograms \cup TernaryPrograms}

NotRun == [done |-> FALSE, is_repl |-> FALSE, errors |-> 0,
           statements |-> <<>>, executed |-> <<>>, evaluated |-> <<>>,
           syncs |-> <<>>, ended |-> FALSE]

InitParser ==
    /\ InterpInit
    /\ ClassIdle
    /\ LogicalIdle
    /\ ResolverIdle
    /\ ScannerIdle
    /\ ExtraIdle
    /\ tokens \in Programs
    /\ ran = NotRun

\* Malis::run from the tokens on: they are parsed; the statements are
\* interpreted unless there is none in the REPL, where the tokens are then
\* parsed again as one expression, which is evaluated.
Run(is_repl) ==
    /\ ~ran.done
    /\ LET stmts == parse(tokens)
           expr_again == separator(tokens, 1)
       IN  ran' = [done |-> TRUE, is_repl |-> is_repl,
                   errors |-> stmts.errors,
                   statements |-> stmts.statements,
                   executed |-> IF stmts.statements # <<>> \/ ~is_repl
                                THEN interpret(stmts.statements)
                                ELSE <<>>,
                   evaluated |-> IF stmts.statements # <<>> \/ ~is_repl
                                    \/ ~expr_again.ok
                                 THEN <<>>
                                 ELSE <<evaluate(expr_again.node)>>,
                   syncs |-> stmts.syncs, ended |-> stmts.ended]
    /\ UNCHANGED <<tokens, interpVars, classVars, logicalVars, resolverVars,
                   scannerVars, extraVars>>

NextParser == \E is_repl \in BOOLEAN : Run(is_repl)

SpecParser == InitParser /\ [][NextParser]_vars

(***************************************************************************)
(* SpecBlocks: Parser::parse on token sequences with blocks (parser.rs),   *)
(* as the test block_scope_test of lib.rs runs it.  The token sequence is  *)
(* either the text of a program of print statements and blocks nested up   *)
(* to MaxBlockDepth deep, or any sequence of at most MaxTokens tokens      *)
(* among `{`, `}`, `;`, `print` and a literal; Eof ends each.              *)
(***************************************************************************)
PrintTree(v) == [block |-> FALSE, v |-> v, body |-> <<>>]
BlockTree(body) == [block |-> TRUE, v |-> NoVal, body |-> body]

\* The statements of the programs: `print v;` and, nested up to depth
\* levels, `{ ... }` around at most MaxBody statements.
RECURSIVE TreesOf(_)
TreesOf(depth) ==
    IF depth = 0 THEN {PrintTree(Bool(TRUE)), PrintTree(Num(1))}
    ELSE LET inner == TreesOf(depth - 1)
         IN  inner \cup
             {BlockTree(body) :
                 body \in UNION {[1..n -> inner] : n \in 0..MaxBody}}

\* The text of a sequence of statements, as tokens from position pos on,
\* and the statements that text stands for: `print v ;` for a print
\* statement of the literal, `{` ... `}` around the text of its statements
\* for a block (AstPrinter::visit_block_stmt shows such a node as
\* "(block scope ...)" around its statements in order).
RECURSIVE emit(_, _)
emit(trees, pos) ==
    IF trees = <<>> THEN [toks |-> <<>>, nodes |-> <<>>]
    ELSE LET t == Head(trees)
             inner == emit(t.body, pos + 1)
             first ==
                 IF t.block
                 THEN [toks |-> <<Tok("{")>> \o inner.toks \o <<Tok("}")>>,
                       nodes |-> <<Block(inner.nodes)>>]
                 ELSE [toks |-> <<Tok("print"), LitTok(t.v), Tok(";")>>,
                       nodes |-> <<[kind |-> "print",
                                    expr |-> Lit(t.v, pos + 1)]>>]
             rest == emit(Tail(trees), pos + Len(first.toks))
         IN  [toks |-> first.toks \o rest.toks,
              nodes |-> first.nodes \o rest.nodes]

BlockAlphabet ==
    {Tok("{"), Tok("}"), Tok(";"), Tok("print"), LitTok(Num(1))}

BlockTexts == UNION {[1..n -> BlockAlphabet] : n \in 0..MaxTokens}

BlockPrograms ==
    UNION {[1..n -> TreesOf(MaxBlockDepth)] : n \in 1..2}

InitBlocks ==
    /\ InterpInit
    /\ ClassIdle
    /\ LogicalIdle
    /\ ResolverIdle
    /\ ScannerIdle
    /\ ScopesIdle
    /\ EnvIdle
    /\ \/ /\ program \in {[given |-> TRUE, trees |-> trees] :
                              trees \in BlockPrograms}
          /\ tokens = Append(emit(program.trees, 1).toks, Tok("Eof"))
       \/ /\ program = [given |-> FALSE, trees |-> <<>>]
          /\ tokens \in {Append(text, Tok("Eof")) : text \in BlockTexts}
    /\ ran = NotRun

\* `Parser::new(tokens).parse()`.
Parse ==
    /\ ~ran.done
    /\ LET stmts == parse(tokens)
       IN  ran' = [NotRun EXCEPT !.done = TRUE,
                                 !.errors = stmts.errors,
                                 !.statements = stmts.statements,
                                 !.syncs = stmts.syncs,
                                 !.ended = stmts.ended]
    /\ UNCHANGED <<tokens, program, interpVars, classVars, logicalVars,
                   resolverVars, scannerVars, scopeVars, envVars>>

NextBlocks == Parse

SpecBlocks == InitBlocks /\ [][NextBlocks]_vars

(***************************************************************************)
(* Properties checked under SpecBlocks.                                    *)
(***************************************************************************)

\* C28: the text of a program of print statements and nested blocks is
\* parsed without error into that program: each `{ ... }` is one Block
\* whose statements are those between its braces, in source order, inner
\* blocks at their place, and what follows an inner block's `}` belongs to
\* the enclosing block.
C28_BlocksKeepOrderAndNesting ==
    (ran.done /\ program.given) =>
        /\ ran.ended
        /\ ran.errors = 0
        /\ ran.statements = emit(program.trees, 1).nodes

\* A block that holds an inner block and then a print statement was parsed,
\* followed by a statement at top level.
C28_Witness ==
    /\ ran.done
    /\ program.given
    /\ Len(ran.statements) = 2
    /\ ran.statements[1].kind = "block"
    /\ Len(ran.statements[1].statements) = 2
    /\ ran.statements[1].statements[1].kind = "block"
    /\ Len(ran.statements[1].statements[1].statements) = 1
    /\ ran.statements[1].statements[2].kind = "print"
    /\ ran.statements[2].kind = "print"

\* C29: Parser::parse returns on every token sequence that ends with Eof.
C29_ParseTerminates == ran.done => ran.ended

(***************************************************************************)
(* SpecScanner: Scanner::scan_tokens on a string (scanner.rs).  The input  *)
(* is a sequence of characters; offsets count from 0 as in the source, so  *)
(* the character at offset i is d[i + 1].  `next` is the offset of the     *)
(* character the iterator `chars` gives next.                              *)
(***************************************************************************)
\* The characters of the inputs: two single-character tokens, a digit, a
\* letter, a blank, the double quote, and a character that starts no token.
Chars == {"(", ";", "1", "a", " ", "\"", "@"}

\* The builds of the program: with the overflow checks of a debug build a
\* subtraction below zero panics, in a release build it wraps around.
Builds == {"debug", "release"}

is_digit(ch) == ch = "1"
is_ascii_alphabetic(ch) == ch = "a"
is_ascii_alphanumeric(ch) == is_digit(ch) \/ is_ascii_alphabetic(ch)

\* str::get(start..offset): None unless start <= offset <= len.
str_get(d, start, offset) ==
    IF start <= offset /\ offset <= Len(d)
    THEN [ok |-> TRUE, text |-> SubSeq(d, start + 1, offset)]
    ELSE [ok |-> FALSE, text |-> <<>>]

Token(t_type, lexeme) == [t_type |-> t_type, lexeme |-> lexeme]
NoToken == Token("none", <<>>)

\* What scanning one token gives: Ok(token) or Err(err), and where the
\* iterator stands afterwards.
Scanned(token, next) ==
    [ok |-> TRUE, token |-> token, err |-> "none", next |-> next]
ScannerError(err, next) ==
    [ok |-> FALSE, token |-> NoToken, err |-> err, next |-> next]

\* Scanner::create_token: the lexeme is data[start..self.offset].
create_token(d, token_type, start, offset, next) ==
    LET text == str_get(d, start, offset)
    IN  IF text.ok
        THEN Scanned(Token(token_type, text.text), next)
        ELSE ScannerError("FailedToIndexSlice", next)

\* Scanner::parse_number, the loop: a peeked digit is consumed and
\* self.offset set to its offset.  (No input here has a `.`.)
RECURSIVE parse_number_loop(_, _, _)
parse_number_loop(d, offset, next) ==
    IF next < Len(d) /\ is_digit(d[next + 1])
    THEN parse_number_loop(d, next, next + 1)
    ELSE [offset |-> offset, next |-> next]

\* Scanner::parse_number: after the loop self.offset moves one past the
\* last digit, and the digits from `start` are the number.
parse_number(d, start, next) ==
    LET r == parse_number_loop(d, start, next)
        value == str_get(d, start, r.offset + 1)
    IN  IF value.ok
        THEN create_token(d, "Number", start, r.offset + 1, r.next)
        ELSE ScannerError("FailedToIndexSlice", r.next)

\* Scanner::parse_ident, the loop: a peeked alphanumeric is consumed and
\* self.offset set to its offset; any other character ends the loop with
\* self.offset one further; the end of the input ends it with self.offset
\* as it is.
RECURSIVE parse_ident_loop(_, _, _)
parse_ident_loop(d, offset, next) ==
    IF next >= Len(d)
    THEN [offset |-> offset, next |-> next]
    ELSE IF is_ascii_alphanumeric(d[next + 1])
         THEN parse_ident_loop(d, next, next + 1)
         ELSE [offset |-> offset + 1, next |-> next]

\* Scanner::parse_ident: no word over these characters is a keyword, so the
\* token is Literal::LitString.
parse_ident(d, start, next) ==
    LET r == parse_ident_loop(d, start, next)
        value == str_get(d, start, r.offset)
    IN  IF value.ok
        THEN create_token(d, "LitString", start, r.offset, r.next)
        ELSE ScannerError("FailedToIndexSlice", r.next)

\* Scanner::parse_string, the loop: self.offset is set to the offset of
\* each character peeked, and to one further at the closing quote, which
\* ends the loop; so does the end of the input.  The test
\* `self.offset == self.data.len()` that returns Err(UnterminatedString)
\* follows the assignment of a character's offset, which is below len.
RECURSIVE parse_string_loop(_, _, _)
parse_string_loop(d, offset, next) ==
    IF next >= Len(d)
    THEN [offset |-> offset, next |-> next, err |-> "none"]
    ELSE IF d[next + 1] = "\""
         THEN [offset |-> next + 1, next |-> next + 1, err |-> "none"]
         ELSE IF next = Len(d)
              THEN [offset |-> next, next |-> next + 1,
                    err |-> "UnterminatedString"]
              ELSE parse_string_loop(d, next, next + 1)

\* Scanner::parse_string: the value is data[start+1..self.offset-1] and the
\* token a Literal::Ident with the lexeme data[start..self.offset].
\* `self.offset - 1` with self.offset = 0 panics in a debug build and is
\* usize::MAX in a release build, where str::get then gives None.
parse_string(d, build, start, next) ==
    LET r == parse_string_loop(d, start, next)
        value == str_get(d, start + 1, r.offset - 1)
    IN  IF r.err # "none" THEN ScannerError(r.err, r.next)
        ELSE IF r.offset = 0
        THEN ScannerError(IF build = "debug" THEN "panic"
                          ELSE "FailedToIndexSlice", r.next)
        ELSE IF value.ok
        THEN create_token(d, "Ident", start, r.offset, r.next)
        ELSE ScannerError("FailedToIndexSlice", r.next)

\* Scanner::scan_token for the character ch at offset start, self.offset
\* being start.
scan_token(d, build, ch, start, next) ==
    CASE ch = "(" -> create_token(d, "LeftParen", start, start + 1, next)
      [] ch = ";" -> create_token(d, "SemiColon", start, start + 1, next)
      [] ch = " " -> create_token(d, "Ignored", start, start, next)
      [] ch = "\"" -> parse_string(d, build, start, next)
      [] is_digit(ch) -> parse_number(d, start, next)
      [] is_ascii_alphabetic(ch) -> parse_ident(d, start, next)
      [] OTHER -> ScannerError("UnexpectedCharacter", next)

\* Scanner::scan_tokens, the loop over the characters: a token that is not
\* Ignored is pushed on token_list, an error on error_list.  A panic ends
\* the program.
RECURSIVE scan_tokens_loop(_, _, _, _, _)
scan_tokens_loop(d, build, next, token_list, error_list) ==
    IF next >= Len(d)
    THEN [token_list |-> token_list, error_list |-> error_list,
          panicked |-> FALSE]
    ELSE LET r == scan_token(d, build, d[next + 1], next, next + 1)
         IN  IF r.err = "panic"
             THEN [token_list |-> token_list, error_list |-> error_list,
                   panicked |-> TRUE]
             ELSE IF ~r.ok
             THEN scan_tokens_loop(d, build, r.next, token_list,
                                   Append(error_list, r.err))
             ELSE IF r.token.t_type = "Ignored"
                  THEN scan_tokens_loop(d, build, r.next, token_list,
                                        error_list)
                  ELSE scan_tokens_loop(d, build, r.next,
                                        Append(token_list, r.token),
                                        error_list)

\* Scanner::scan_tokens: after the loop it returns Ok(token_list).  `ok`,
\* `tokens` and `errors` are the Result returned; error_list is the local
\* list of the errors met.  Nothing is returned after a panic.
scan_tokens(d, build) ==
    LET r == scan_tokens_loop(d, build, 0, <<>>, <<>>)
    IN  IF r.panicked
        THEN [ok |-> FALSE, tokens |-> <<>>, errors |-> <<>>,
              error_list |-> r.error_list, panicked |-> TRUE]
        ELSE [ok |-> TRUE, tokens |-> r.token_list, errors |-> <<>>,
              error_list |-> r.error_list, panicked |-> FALSE]

Inputs == UNION {[1..n -> Chars] : n \in 0..MaxLen}

NotScanned == [done |-> FALSE, ok |-> FALSE, tokens |-> <<>>,
               errors |-> <<>>, error_list |-> <<>>, panicked |-> FALSE]

InitScanner ==
    /\ InterpInit
    /\ ClassIdle
    /\ LogicalIdle
    /\ ResolverIdle
    /\ ParserIdle
    /\ ExtraIdle
    /\ data \in Inputs
    /\ scanned = NotScanned

\* `scanner.scan_tokens()` in Malis::run.
Scan(build) ==
    /\ ~scanned.done
    /\ LET r == scan_tokens(data, build)
       IN  scanned' = [done |-> TRUE, ok |-> r.ok, tokens |-> r.tokens,
                       errors |-> r.errors, error_list |-> r.error_list,
                       panicked |-> r.panicked]
    /\ UNCHANGED <<data, interpVars, classVars, logicalVars, resolverVars,
                   parserVars, extraVars>>

NextScanner == \E build \in Builds : Scan(build)

SpecScanner == InitScanner /\ [][NextScanner]_vars

(***************************************************************************)
(* SpecResolver: the resolver's walk over a program (resolver.rs).  The    *)
(* program is chosen as the walk goes: each step enters or leaves a        *)
(* declaration or visits a `self`, a `super` or a `return`.  Statements    *)
(* stand at top level and in the bodies of functions and methods; a class  *)
(* body holds methods.  Every name the program uses is declared, and a     *)
(* superclass is another class than the one declared.                      *)
(***************************************************************************)
ResolverFunctionType == {"Method", "Function", "None"}
ClassType == {"Class", "Subclass", "None"}
MethodsResolved == {"init", "m"}

\* Resolver::visit_self: whether the expression is accepted.
resolver_visit_self(class_type) == class_type # "None"

\* Resolver::visit_super: whether the expression is accepted.
resolver_visit_super(class_type) == class_type \notin {"None", "Class"}

\* Resolver::visit_class up to the methods: the class context set.
visit_class_enter(has_superclass) ==
    IF has_superclass THEN "Subclass" ELSE "Class"

\* A variant of visit_class_leave that keeps the context of the class that
\* ends.
visit_class_leave_kept(class_type, current) == current

\* Resolver::visit_class after the methods: the class context is reverted
\* to the checkpoint taken on entry.
visit_class_leave(class_type, current) == class_type

\* A declaration the resolver is inside of, with the checkpoints
\* visit_class and resolve_function took on entering it.
Decl(kind, name, has_superclass) ==
    [kind |-> kind, name |-> name, has_superclass |-> has_superclass,
     class_type |-> current_class, func_state |-> current_function]

\* What the resolver visited last, and whether a class declaration has
\* ended earlier in the walk.
Visited(node, ok, has_value, after_class) ==
    [node |-> node, ok |-> ok, has_value |-> has_value,
     after_class |-> after_class]

InBody ==
    IF nesting = <<>> THEN TRUE
    ELSE nesting[Len(nesting)].kind \in {"function", "method"}
InClassBody ==
    IF nesting = <<>> THEN FALSE
    ELSE nesting[Len(nesting)].kind = "class"

InitResolver ==
    /\ InterpInit
    /\ ClassIdle
    /\ LogicalIdle
    /\ ScannerIdle
    /\ ParserIdle
    /\ ExtraIdle
    /\ current_function = "None"
    /\ current_class = "None"
    /\ nesting = <<>>
    /\ resolved = Visited("none", TRUE, FALSE, FALSE)

\* Resolver::visit_class reaches the methods of `class C { ... }` or
\* `class C < B { ... }`.
EnterClass(has_superclass) ==
    /\ resolved.ok
    /\ InBody
    /\ Len(nesting) < MaxNest
    /\ nesting' = Append(nesting, Decl("class", "C", has_superclass))
    /\ current_class' = visit_class_enter(has_superclass)
    /\ resolved' = Visited("class", TRUE, FALSE, resolved.after_class)
    /\ UNCHANGED current_function
    /\ UNCHANGED <<interpVars, classVars, logicalVars, scannerVars,
                   parserVars, extraVars>>

\* Resolver::visit_class has resolved the methods and returns.
LeaveClass ==
    /\ resolved.ok
    /\ InClassBody
    /\ current_class' =
           visit_class_leave(nesting[Len(nesting)].class_type, current_class)
    /\ nesting' = SubSeq(nesting, 1, Len(nesting) - 1)
    /\ resolved' = Visited("class", TRUE, FALSE, TRUE)
    /\ UNCHANGED current_function
    /\ UNCHANGED <<interpVars, classVars, logicalVars, scannerVars,
                   parserVars, extraVars>>

\* Resolver::resolve_function reaches the body of a method of the class.
EnterMethod(name) ==
    /\ resolved.ok
    /\ InClassBody
    /\ Len(nesting) < MaxNest
    /\ nesting' = Append(nesting, Decl("method", name, FALSE))
    /\ current_function' = "Method"
    /\ resolved' = Visited("function", TRUE, FALSE, resolved.after_class)
    /\ UNCHANGED current_class
    /\ UNCHANGED <<interpVars, classVars, logicalVars, scannerVars,
                   parserVars, extraVars>>

\* Resolver::visit_function: resolve_function reaches the body of `fun f`.
EnterFunction ==
    /\ resolved.ok
    /\ InBody
    /\ Len(nesting) < MaxNest
    /\ nesting' = Append(nesting, Decl("function", "f", FALSE))
    /\ current_function' = "Function"
    /\ resolved' = Visited("function", TRUE, FALSE, resolved.after_class)
    /\ UNCHANGED current_class
    /\ UNCHANGED <<interpVars, classVars, logicalVars, scannerVars,
                   parserVars, extraVars>>

\* Resolver::resolve_function has resolved the body: current_function is
\* reverted to the state saved on entry.
LeaveFunction ==
    /\ resolved.ok
    /\ nesting # <<>>
    /\ InBody
    /\ current_function' = nesting[Len(nesting)].func_state
    /\ nesting' = SubSeq(nesting, 1, Len(nesting) - 1)
    /\ resolved' = Visited("function", TRUE, FALSE, resolved.after_class)
    /\ UNCHANGED current_class
    /\ UNCHANGED <<interpVars, classVars, logicalVars, scannerVars,
                   parserVars, extraVars>>

\* A statement with a `self` expression.
VisitSelf ==
    /\ resolved.ok
    /\ InBody
    /\ resolved' = Visited("self", resolver_visit_self(current_class), FALSE,
                           resolved.after_class)
    /\ UNCHANGED <<current_function, current_class, nesting>>
    /\ UNCHANGED <<interpVars, classVars, logicalVars, scannerVars,
                   parserVars, extraVars>>

\* A statement with a `super.m` expression.
VisitSuper ==
    /\ resolved.ok
    /\ InBody
    /\ resolved' = Visited("super", resolver_visit_super(current_class), FALSE,
                           resolved.after_class)
    /\ UNCHANGED <<current_function, current_class, nesting>>
    /\ UNCHANGED <<interpVars, classVars, logicalVars, scannerVars,
                   parserVars, extraVars>>

\* `return;` or `return 1;`.
VisitReturn(has_value) ==
    /\ resolved.ok
    /\ InBody
    /\ resolved' = Visited("return",
                           visit_return_stmt(current_function, has_value),
                           has_value, resolved.after_class)
    /\ UNCHANGED <<current_function, current_class, nesting>>
    /\ UNCHANGED <<interpVars, classVars, logicalVars, scannerVars,
                   parserVars, extraVars>>

NextResolver ==
    \/ \E has_superclass \in BOOLEAN : EnterClass(has_superclass)
    \/ LeaveClass
    \/ \E name \in MethodsResolved : EnterMethod(name)
    \/ EnterFunction
    \/ LeaveFunction
    \/ VisitSelf
    \/ VisitSuper
    \/ \E has_value \in BOOLEAN : VisitReturn(has_value)

SpecResolver == InitResolver /\ [][NextResolver]_vars

(***************************************************************************)
(* SpecEnvironment: Environment::insert_at followed by Environment::get_at *)
(* with the same distance and name, on every chain of up to MaxChain       *)
(* environments each of which binds the name `a` or does not.              *)
(***************************************************************************)
\* An environment that binds `a` to v, and none of the other names; with
\* v = NoVal it binds nothing.
Binding(v) == [EmptyEnv EXCEPT !["a"] = Bind(v, 0)]

Chains ==
    UNION {[1..n -> {Binding(v) : v \in Literals \cup {NoVal}}] :
              n \in 1..MaxChain}

NoProbe == [done |-> FALSE, distance |-> 0, v |-> NoVal, ok |-> FALSE,
            before |-> <<>>, got |-> NoBinding]

InitEnvironment ==
    /\ InterpInit
    /\ ClassIdle
    /\ LogicalIdle
    /\ ResolverIdle
    /\ ScannerIdle
    /\ ParserIdle
    /\ ScopesIdle
    /\ BlocksIdle
    /\ env_chain \in Chains
    /\ probe = NoProbe

\* `env.insert_at(distance, "a", v)` and then `env.get_at(distance, "a")`,
\* env being the innermost environment of the chain.
InsertAtGetAt(distance, v) ==
    /\ LET r == insert_at(env_chain, distance, "a", v)
       IN  /\ env_chain' = r.env
           /\ probe' = [done |-> TRUE, distance |-> distance, v |-> v,
                        ok |-> r.ok, before |-> env_chain,
                        got |-> get_at(r.env, distance, "a")]
    /\ UNCHANGED <<interpVars, classVars, logicalVars, resolverVars,
                   scannerVars, parserVars, scopeVars, blockVars>>

NextEnvironment ==
    \E distance \in 0..MaxChain, v \in Literals : InsertAtGetAt(distance, v)

SpecEnvironment == InitEnvironment /\ [][NextEnvironment]_vars

(***************************************************************************)
(* SpecScopes: the resolver's scope stack with the flags of every key      *)
(* (resolver.rs).  The program is chosen as the walk goes: each step       *)
(* visits a variable declaration, a variable, an assignment, or enters or  *)
(* leaves a block or the declaration of the function `f(p)`.  A flag is    *)
(* "absent" for a key the map does not hold, "declared" for (false,        *)
(* false), "defined" for (true, false) and "accessed" for (true, true).    *)
(* Next to the scope stack goes, scope by scope, what the program          *)
(* declares there and whether it reads it.  The walk stops at the first    *)
(* error or panic.                                                         *)
(***************************************************************************)
ScopeNames == {"a", "f", "p"}

HashMapNew == [name \in ScopeNames |-> "absent"]

\* The keys of every scope.
keys(stack) ==
    [i \in DOMAIN stack |-> {name \in ScopeNames : stack[i][name] # "absent"}]

\* Resolver::begin_scope.
push_scope(stack) == Append(stack, HashMapNew)

\* Resolver::declare: it panics when the innermost scope holds the key, and
\* inserts (false, false) otherwise.
declare_key(stack, name) ==
    IF stack[Len(stack)][name] # "absent"
    THEN [panic |-> TRUE, scopes |-> stack]
    ELSE [panic |-> FALSE,
          scopes |-> [stack EXCEPT ![Len(stack)][name] = "declared"]]

\* Resolver::define: (true, false) is inserted in the innermost scope.
define_key(stack, name) == [stack EXCEPT ![Len(stack)][name] = "defined"]

\* Resolver::end_scope: the innermost scope is popped; it panics if some
\* key of it is (true, false), `self` and `super` excepted, which are not
\* among the names here.
end_scope(stack) ==
    [flagged |-> {name \in ScopeNames : stack[Len(stack)][name] = "defined"},
     scopes |-> Front(stack)]

\* Resolver::visit_variable: Err(NotInitialized) if the innermost scope
\* holds the name as (false, false); otherwise (true, true) is inserted for
\* the name in the innermost scope and resolve_local records the distance.
visit_variable(stack, name) ==
    IF stack[Len(stack)][name] = "declared"
    THEN [result |-> "NotInitialized", scopes |-> stack, distance |-> -1]
    ELSE LET marked == [stack EXCEPT ![Len(stack)][name] = "accessed"]
         IN  [result |-> "ok", scopes |-> marked,
              distance |-> resolve_local(keys(marked), name)]

\* What the program declares: per scope its kind and, for every name,
\* "no" if the program does not declare it there, "unused" if it does and
\* has not read it so far, "used" if it has read it.
Declares(kind) == [kind |-> kind, names |-> [name \in ScopeNames |-> "no"]]

program_declares(decls, name) ==
    [decls EXCEPT ![Len(decls)].names[name] =
        IF @ = "no" THEN "unused" ELSE @]

\* How many scopes outward from the innermost one the nearest declaration
\* of the name lies, or -1 when the program does not declare it.
RECURSIVE declared_level(_, _)
declared_level(decls, name) ==
    IF decls = <<>> THEN -1
    ELSE IF decls[Len(decls)].names[name] # "no" THEN 0
    ELSE LET k == declared_level(Front(decls), name)
         IN  IF k = -1 THEN -1 ELSE k + 1

program_reads(decls, name) ==
    LET k == declared_level(decls, name)
    IN  IF k = -1 THEN decls
        ELSE [decls EXCEPT ![Len(decls) - k].names[name] = "used"]

\* The variables of a scope that the program declared and never read; the
\* function's name is not one of them.
never_used(scope) ==
    {name \in ScopeNames \ {"f"} : scope.names[name] = "unused"}

NoResolution ==
    [op |-> "none", name |-> "a", result |-> "ok", distance |-> -1,
     k |-> -1, duplicate |-> FALSE, exits |-> <<>>, n |-> 0]

Visit(op, name, result, distance, k, duplicate, exits) ==
    [op |-> op, name |-> name, result |-> result, distance |-> distance,
     k |-> k, duplicate |-> duplicate, exits |-> exits,
     n |-> resolution.n + 1]

\* Resolver::resolve has begun the global scope.
InitScopes ==
    /\ InterpInit
    /\ ClassIdle
    /\ LogicalIdle
    /\ ResolverIdle
    /\ ScannerIdle
    /\ ParserIdle
    /\ EnvIdle
    /\ BlocksIdle
    /\ scope_stack = push_scope(<<>>)
    /\ declared_in = <<Declares("global")>>
    /\ resolution = NoResolution

Resolving ==
    /\ resolution.result = "ok"
    /\ resolution.n < MaxVisits
    /\ scope_stack # <<>>

TopKinds(inner, outer) ==
    IF Len(declared_in) < 2 THEN FALSE
    ELSE /\ declared_in[Len(declared_in)].kind = inner
         /\ declared_in[Len(declared_in) - 1].kind = outer

\* Resolver::visit_var_stmt on `var name = 1;` and, with self_init, on
\* `var name = name;`: declare, the initializer is resolved, define.
VisitVarStmt(name, self_init) ==
    /\ Resolving
    /\ LET d == declare_key(scope_stack, name)
           v == visit_variable(d.scopes, name)
           duplicate ==
               declared_in[Len(declared_in)].names[name] # "no"
           op == IF self_init THEN "var_self" ELSE "var"
       IN  IF d.panic
           THEN /\ scope_stack' = scope_stack
                /\ declared_in' = declared_in
                /\ resolution' =
                       Visit(op, name, "panic", -1, -1, duplicate, <<>>)
           ELSE IF self_init /\ v.result # "ok"
           THEN /\ scope_stack' = v.scopes
                /\ declared_in' = declared_in
                /\ resolution' =
                       Visit(op, name, v.result, -1, -1, duplicate, <<>>)
           ELSE /\ scope_stack' =
                       define_key(IF self_init THEN v.scopes ELSE d.scopes,
                                  name)
                /\ declared_in' = program_declares(declared_in, name)
                /\ resolution' =
                       Visit(op, name, "ok", -1, -1, duplicate, <<>>)
    /\ UNCHANGED <<interpVars, classVars, logicalVars, resolverVars,
                   scannerVars, parserVars, envVars, blockVars>>

\* Resolver::visit_variable on `print name;`.
VisitVariable(name) ==
    /\ Resolving
    /\ LET v == visit_variable(scope_stack, name)
       IN  /\ scope_stack' = v.scopes
           /\ declared_in' = program_reads(declared_in, name)
           /\ resolution' =
                  Visit("use", name, v.result, v.distance,
                        declared_level(declared_in, name), FALSE, <<>>)
    /\ UNCHANGED <<interpVars, classVars, logicalVars, resolverVars,
                   scannerVars, parserVars, envVars, blockVars>>

\* Resolver::visit_assign on `name = 1;`: resolve_local alone.
VisitAssign(name) ==
    /\ Resolving
    /\ resolution' =
           Visit("assign", name, "ok",
                 resolve_local(keys(scope_stack), name),
                 declared_level(declared_in, name), FALSE, <<>>)
    /\ UNCHANGED <<scope_stack, declared_in>>
    /\ UNCHANGED <<interpVars, classVars, logicalVars, resolverVars,
                   scannerVars, parserVars, envVars, blockVars>>

\* Resolver::visit_block_stmt up to the block's first statement:
\* begin_scope, and begin_scope again in Resolver::resolve.
VisitBlockEnter ==
    /\ Resolving
    /\ Len(scope_stack) + 2 <= MaxScopes
    /\ scope_stack' = push_scope(push_scope(scope_stack))
    /\ declared_in' =
           Append(Append(declared_in, Declares("block")),
                  Declares("resolve"))
    /\ resolution' = Visit("block", "a", "ok", -1, -1, FALSE, <<>>)
    /\ UNCHANGED <<interpVars, classVars, logicalVars, resolverVars,
                   scannerVars, parserVars, envVars, blockVars>>

\* The two calls of end_scope that end a block or a function declaration:
\* the one of Resolver::resolve, then the one of the visitor.  A panic in
\* the first leaves the second undone.
Leave(op) ==
    LET first == end_scope(scope_stack)
        second == end_scope(first.scopes)
        exit1 == [flagged |-> first.flagged,
                  unused |-> never_used(declared_in[Len(declared_in)])]
        exit2 == [flagged |-> second.flagged,
                  unused |-> never_used(declared_in[Len(declared_in) - 1])]
    IN  IF first.flagged # {}
        THEN /\ scope_stack' = first.scopes
             /\ declared_in' = Front(declared_in)
             /\ resolution' =
                    Visit(op, "a", "panic", -1, -1, FALSE, <<exit1>>)
        ELSE /\ scope_stack' = second.scopes
             /\ declared_in' = Front(Front(declared_in))
             /\ resolution' =
                    Visit(op, "a",
                          IF second.flagged # {} THEN "panic" ELSE "ok",
                          -1, -1, FALSE, <<exit1, exit2>>)

\* Resolver::visit_block_stmt from the end of the block's statements on.
VisitBlockLeave ==
    /\ Resolving
    /\ TopKinds("resolve", "block")
    /\ Leave("end_block")
    /\ UNCHANGED <<interpVars, classVars, logicalVars, resolverVars,
                   scannerVars, parserVars, envVars, blockVars>>

\* Resolver::visit_function on `fun f(p) { ... }` up to the body's first
\* statement: declare and define the name; in Resolver::resolve_function
\* begin_scope, declare and define the parameter; begin_scope again in
\* Resolver::resolve.
VisitFunctionEnter ==
    /\ Resolving
    /\ Len(scope_stack) + 2 <= MaxScopes
    /\ LET d == declare_key(scope_stack, "f")
           duplicate == declared_in[Len(declared_in)].names["f"] # "no"
           params == push_scope(define_key(d.scopes, "f"))
           p == declare_key(params, "p")
       IN  IF d.panic
           THEN /\ scope_stack' = scope_stack
                /\ declared_in' = declared_in
                /\ resolution' =
                       Visit("fun", "f", "panic", -1, -1, duplicate, <<>>)
           ELSE /\ scope_stack' = push_scope(define_key(p.scopes, "p"))
                /\ declared_in' =
                       Append(program_declares(
                                  Append(program_declares(declared_in, "f"),
                                         Declares("function")),
                                  "p"),
                              Declares("resolve"))
                /\ resolution' =
                       Visit("fun", "f", "ok", -1, -1, duplicate, <<>>)
    /\ UNCHANGED <<interpVars, classVars, logicalVars, resolverVars,
                   scannerVars, parserVars, envVars, blockVars>>

\* Resolver::resolve_function from the end of the body's statements on.
VisitFunctionLeave ==
    /\ Resolving
    /\ TopKinds("resolve", "function")
    /\ Leave("end_fun")
    /\ UNCHANGED <<interpVars, classVars, logicalVars, resolverVars,
                   scannerVars, parserVars, envVars, blockVars>>

\* Resolver::resolve at the end of the program: end_scope on the global
\* scope.
Finish ==
    /\ Resolving
    /\ Len(scope_stack) = 1
    /\ LET last == end_scope(scope_stack)
       IN  /\ scope_stack' = last.scopes
           /\ declared_in' = Front(declared_in)
           /\ resolution' =
                  Visit("end", "a",
                        IF last.flagged # {} THEN "panic" ELSE "ok",
                        -1, -1, FALSE,
                        <<[flagged |-> last.flagged,
                           unused |-> never_used(declared_in[1])]>>)
    /\ UNCHANGED <<interpVars, classVars, logicalVars, resolverVars,
                   scannerVars, parserVars, envVars, blockVars>>

NextScopes ==
    \/ \E self_init \in BOOLEAN : VisitVarStmt("a", self_init)
    \/ \E name \in ScopeNames : VisitVariable(name)
    \/ \E name \in ScopeNames : VisitAssign(name)
    \/ VisitBlockEnter
    \/ VisitBlockLeave
    \/ VisitFunctionEnter
    \/ VisitFunctionLeave
    \/ Finish

SpecScopes == InitScopes /\ [][NextScopes]_vars

(***************************************************************************)
(* Properties checked under SpecScopes.                                    *)
(***************************************************************************)

\* C21: `var x = x;` is reported as a static error by the resolver, in
\* whatever scope it stands.
C21_SelfInitializerIsError ==
    resolution.op = "var_self" => resolution.result = "NotInitialized"

\* C22: declaring a name that the program already declares in the same
\* scope makes the resolver return a static error as its result.
C22_DuplicateIsReturnedError ==
    (resolution.op \in {"var", "var_self", "fun"} /\ resolution.duplicate) =>
        resolution.result \notin {"ok", "panic"}

\* C23: when a scope ends, the resolver flags exactly the variables
\* declared in it that were never read, from that scope or a nested one,
\* and never the name of a function.
C23_UnusedDetectedOnExit ==
    \A i \in DOMAIN resolution.exits :
        resolution.exits[i].flagged = resolution.exits[i].unused

\* C25: the distance recorded for a variable use is the number of scopes
\* between the innermost scope and the nearest one that declares the name,
\* and no distance is recorded for a name that no scope declares.
C25_DistanceIsDeclaredLevel ==
    (resolution.op = "use" /\ resolution.result = "ok") =>
        resolution.distance = resolution.k

(***************************************************************************)
(* Classes, instances, property access and super (interpreter/visit.rs,    *)
(* interpreter/malis_class.rs).  The program declares classes at top       *)
(* level and works on one variable, `o`.                                   *)
(***************************************************************************)
\* A variant of the method lookup that asks the superclass first.
RECURSIVE find_method_inherited_first(_, _, _)
find_method_inherited_first(table, c, name) ==
    IF c = 0 THEN 0
    ELSE LET inherited ==
                 find_method_inherited_first(table, table[c].superclass, name)
         IN  IF inherited # 0 THEN inherited
             ELSE IF name \in table[c].methods THEN c
             ELSE 0

\* MalisClass::find_method: the class that declares the method found, its
\* own methods first, then the superclass recursively; 0 stands for None.
RECURSIVE find_method(_, _, _)
find_method(table, c, name) ==
    IF c = 0 THEN 0
    ELSE IF name \in table[c].methods THEN c
    ELSE find_method(table, table[c].superclass, name)

\* UserFunction::bind: a new environment that defines self, enclosed by a
\* copy of the closure.
bind(closure, instance) ==
    define(Append(closure, EmptyClassEnv), "self", instance, 0)

\* MalisInstance::get: a field if there is one, else the class's method
\* bound to the instance, else Err(PropertyNotPresent).
instance_get(table, instance, key) ==
    IF key \in FieldNames /\ instance.fields[key] # NoVal
    THEN [ok |-> TRUE, v |-> instance.fields[key]]
    ELSE LET owner == find_method(table, instance.n, key)
         IN  IF owner = 0 THEN [ok |-> FALSE, v |-> NoVal]
             ELSE [ok |-> TRUE, v |-> Bound(owner, key, instance)]

\* MalisInstance::set.
instance_set(instance, key, value) ==
    [instance EXCEPT !.fields[key] = value]

\* Interpreter::visit_get of `o.key`: the object is evaluated (a copy of the
\* variable's value) and must be an instance.
visit_get(table, env, key) ==
    LET object == lookup_variable(env, 0, "o").v
    IN  IF object.kind = "instance" THEN instance_get(table, object, key)
        ELSE [ok |-> FALSE, v |-> NoVal]

\* Interpreter::visit_set of `o.key = value`: the object is evaluated (a copy
\* of the variable's value), the field is set in that copy and the copy is
\* the value of the expression.
visit_set(env, key, value) ==
    LET object == lookup_variable(env, 0, "o").v
    IN  IF object.kind = "instance"
        THEN [ok |-> TRUE, v |-> instance_set(object, key, value)]
        ELSE [ok |-> FALSE, v |-> NoVal]

\* MalisCallable::arity of a class: that of the init method found, else 0.
\* An init method takes one parameter here.
class_arity(table, c) ==
    IF find_method(table, c, "init") # 0 THEN 1 ELSE 0

\* The bodies of an init method: `self.m = p;` ("none"), `return self.m =
\* p;` ("self"), `return p;` ("value") and `return A();` ("other"), A being
\* the first class declared.
InitBodies == {"none", "self", "value", "other"}

\* The body of the init method declared in class owner, run by
\* UserFunction::call with self bound to a copy of the instance: what the
\* call returns.  The value of a Set expression is the changed copy.  In
\* `A()` the variable is read in the method's closure, and the call is
\* checked by visit_call.
init_body(table, owner, instance, arg, body) ==
    IF body = "none" THEN [ok |-> TRUE, v |-> Nil]
    ELSE IF body = "self"
    THEN [ok |-> TRUE, v |-> instance_set(instance, "m", arg)]
    ELSE IF body = "value" THEN [ok |-> TRUE, v |-> arg]
    ELSE LET callee == get(bind(table[owner].closure, instance),
                           ClassNameSeq[1]).v
         IN  IF ~is_callable(callee)
                \/ ~arity_matches(0, class_arity(table, callee.n))
             THEN [ok |-> FALSE, v |-> NoVal]
             ELSE [ok |-> TRUE, v |-> Instance(callee.n, NoFields)]

\* MalisClass::call: a new instance; the init method found is bound to it
\* and called; an instance it returns is the result, when it returns nil
\* the new instance is, and any other value is Err(InvalidClassInit).
class_call(table, c, arg, body) ==
    LET instance == Instance(c, NoFields)
        owner == find_method(table, c, "init")
    IN  IF owner # 0
        THEN LET object == init_body(table, owner, instance, arg, body)
             IN  IF ~object.ok THEN object
                 ELSE IF object.v.kind = "instance" THEN object
                 ELSE IF object.v = Nil THEN [ok |-> TRUE, v |-> instance]
                 ELSE [ok |-> FALSE, v |-> NoVal]
        ELSE [ok |-> TRUE, v |-> instance]

\* Interpreter::visit_class, the environment the methods close over: the
\* class name is defined as nil, and with a superclass `super` is defined in
\* a copy of the current environment.
class_closure(env, c, sup) ==
    LET named == define(env, ClassNameSeq[c], Nil, 0)
    IN  IF sup # 0 THEN define(named, "super", Class(sup), 0) ELSE named

\* Interpreter::visit_class, `class C < S { methods }`.  The program declares
\* its classes before it declares the variable.  The method t holds a super
\* expression, which Resolver::visit_super rejects without a superclass.
ClassStmt(sup, methods) ==
    /\ UNCHANGED <<interpVars, logicalVars, otherVars>>
    /\ cstatus = "running"
    /\ Len(classTable) < MaxClasses
    /\ sup <= Len(classTable)
    /\ run_executes("t" \in methods => sup # 0)
    /\ lookup_variable(cenv, 0, "o") = NoBinding
    /\ LET c == Len(classTable) + 1
           superclass == IF sup = 0 THEN Nil
                         ELSE lookup_variable(cenv, 0, ClassNameSeq[sup]).v
       IN  IF sup # 0 /\ superclass.kind # "class"
           THEN /\ cstatus' = "error"
                /\ UNCHANGED <<classTable, cenv>>
           ELSE /\ classTable' = Append(classTable,
                     [methods |-> methods, superclass |-> sup,
                      closure |-> class_closure(cenv, c, sup)])
                /\ cenv' = insert(define(cenv, ClassNameSeq[c], Nil, 0),
                                  ClassNameSeq[c], Class(c)).env
                /\ UNCHANGED cstatus
    /\ lastGet' = NoGet
    /\ lastSuper' = NoSuper
    /\ lastNew' = NoNew
    /\ UNCHANGED written

\* `var o = C(args);`: Interpreter::visit_call of the class, then
\* visit_var_stmt.  The init method found has the given body; the resolver
\* has visited its return statement as that of a method.
NewStmt(c, args, body) ==
    /\ UNCHANGED <<interpVars, logicalVars, otherVars>>
    /\ cstatus = "running"
    /\ c \in 1..Len(classTable)
    /\ find_method(classTable, c, "init") = 0 => body = "none"
    /\ run_executes(body # "none" => visit_return_stmt("Method", TRUE))
    /\ LET callee == lookup_variable(cenv, 0, ClassNameSeq[c]).v
           argc == Len(args)
           arg == IF args = <<>> THEN Nil ELSE args[1]
           owner == find_method(classTable, callee.n, "init")
           called == [called |-> TRUE, cls |-> c, argc |-> argc,
                      arity |-> class_arity(classTable, callee.n),
                      ok |-> FALSE, v |-> NoVal, init |-> owner,
                      body |-> body]
       IN  IF ~is_callable(callee)
              \/ ~arity_matches(argc, class_arity(classTable, callee.n))
           THEN /\ cstatus' = "error"
                /\ lastNew' = called
                /\ UNCHANGED <<cenv, written>>
           ELSE LET object == class_call(classTable, callee.n, arg, body)
                IN  /\ lastNew' = [called EXCEPT !.ok = object.ok,
                                                 !.v = object.v]
                    /\ IF object.ok
                       THEN /\ cenv' = define(cenv, "o", object.v, 0)
                            /\ written' =
                                 IF owner # 0 /\ body \in {"none", "self"}
                                 THEN [NoFields EXCEPT !["m"] = arg]
                                 ELSE NoFields
                            /\ UNCHANGED cstatus
                       ELSE /\ cstatus' = "error"
                            /\ UNCHANGED <<cenv, written>>
    /\ lastGet' = NoGet
    /\ lastSuper' = NoSuper
    /\ UNCHANGED classTable

\* `o.key = value;`: Interpreter::visit_expr_stmt of a Set expression.
SetStmt(key, value) ==
    /\ UNCHANGED <<interpVars, logicalVars, otherVars>>
    /\ cstatus = "running"
    /\ LET r == visit_set(cenv, key, value)
       IN  IF r.ok
           THEN /\ written' = [written EXCEPT ![key] = value]
                /\ UNCHANGED cstatus
           ELSE /\ cstatus' = "error"
                /\ UNCHANGED written
    /\ lastGet' = NoGet
    /\ lastSuper' = NoSuper
    /\ lastNew' = NoNew
    /\ UNCHANGED <<classTable, cenv>>

\* `o = o.key = value;`: Interpreter::visit_assign of the value of the Set
\* expression to the variable.
AssignSetStmt(key, value) ==
    /\ UNCHANGED <<interpVars, logicalVars, otherVars>>
    /\ cstatus = "running"
    /\ LET r == visit_set(cenv, key, value)
       IN  IF r.ok
           THEN /\ cenv' = assign_variable(cenv, 0, "o", r.v).env
                /\ written' = [written EXCEPT ![key] = value]
                /\ UNCHANGED cstatus
           ELSE /\ cstatus' = "error"
                /\ UNCHANGED <<cenv, written>>
    /\ lastGet' = NoGet
    /\ lastSuper' = NoSuper
    /\ lastNew' = NoNew
    /\ UNCHANGED classTable

\* `print o.key;`: Interpreter::visit_get.
GetStmt(key) ==
    /\ UNCHANGED <<interpVars, logicalVars, otherVars>>
    /\ cstatus = "running"
    /\ LET r == visit_get(classTable, cenv, key)
       IN  /\ lastGet' = [key |-> key, ok |-> r.ok, v |-> r.v,
                          recv |-> lookup_variable(cenv, 0, "o").v]
           /\ cstatus' = IF r.ok THEN cstatus ELSE "error"
    /\ lastSuper' = NoSuper
    /\ lastNew' = NoNew
    /\ UNCHANGED <<classTable, cenv, written>>

\* The resolver's scopes at an expression nested in `blocks` blocks of the
\* body of a method of a class with a superclass (Resolver::visit_class,
\* Resolver::resolve_function, Resolver::visit_block_stmt).
RECURSIVE block_scopes(_, _)
block_scopes(scs, blocks) ==
    IF blocks = 0 THEN scs
    ELSE block_scopes(begin_scope(begin_scope(scs)), blocks - 1)

method_scopes(blocks) ==
    LET top == <<{}>>
        super_scope == declare(begin_scope(top), "super")
        self_scope == declare(begin_scope(super_scope), "self")
    IN  block_scopes(resolve_function(self_scope, <<>>), blocks)

\* The environment at that expression: the bound closure, the environment
\* of the call (UserFunction::call), that of the body and one for each
\* block (Interpreter::execute_block).
RECURSIVE block_envs(_, _)
block_envs(env, blocks) ==
    IF blocks = 0 THEN env
    ELSE block_envs(Append(env, EmptyClassEnv), blocks - 1)

method_env(closure, instance, blocks) ==
    block_envs(Append(Append(bind(closure, instance), EmptyClassEnv),
                      EmptyClassEnv),
               blocks)

\* Interpreter::visit_super of `super.name` with the distance recorded for
\* it: the class bound to super at that distance, its method, the instance
\* bound to self one environment nearer, and the method bound to it.
visit_super(table, env, distance, name) ==
    LET superclass == get_at(env, distance, "super").v
        method == IF superclass.kind = "class"
                  THEN find_method(table, superclass.n, name) ELSE 0
        instance == get_at(env, distance - 1, "self").v
    IN  IF distance < 0 THEN [ok |-> TRUE, v |-> Nil]
        ELSE IF superclass.kind # "class" \/ method = 0
                \/ instance.kind # "instance"
        THEN [ok |-> FALSE, v |-> NoVal]
        ELSE [ok |-> TRUE, v |-> Bound(method, name, instance)]

\* `o.t();` where the body of t evaluates `super.name` inside `blocks`
\* nested blocks: visit_call, visit_get of t, UserFunction::call and
\* visit_super.
SuperStmt(name, blocks) ==
    /\ UNCHANGED <<interpVars, logicalVars, otherVars>>
    /\ cstatus = "running"
    /\ LET t == visit_get(classTable, cenv, "t")
       IN  /\ t.ok
           /\ t.v.kind = "fn"
           /\ LET env == method_env(classTable[t.v.n].closure, t.v.self,
                                    blocks)
                  distance == resolve_local(method_scopes(blocks), "super")
                  r == visit_super(classTable, env, distance, name)
              IN  /\ lastSuper' = [evaluated |-> TRUE, ok |-> r.ok,
                                   v |-> r.v, cls |-> t.v.n,
                                   recv |-> t.v.self, name |-> name,
                                   depth |-> blocks]
                  /\ cstatus' = IF r.ok THEN cstatus ELSE "error"
    /\ lastGet' = NoGet
    /\ lastNew' = NoNew
    /\ UNCHANGED <<classTable, cenv, written>>

InitClass ==
    /\ InterpInit
    /\ ClassIdle
    /\ LogicalIdle
    /\ OtherIdle

NextClass ==
    \/ \E sup \in 0..MaxClasses, methods \in SUBSET MethodNames :
          ClassStmt(sup, methods)
    \/ \E c \in 1..MaxClasses, args \in ArgLists, body \in InitBodies :
          NewStmt(c, args, body)
    \/ \E key \in FieldNames, value \in Literals : SetStmt(key, value)
    \/ \E key \in FieldNames, value \in Literals : AssignSetStmt(key, value)
    \/ \E key \in FieldNames \cup MethodNames : GetStmt(key)
    \/ \E name \in {"m"}, blocks \in 0..MaxBlocks : SuperStmt(name, blocks)

SpecClass == InitClass /\ [][NextClass]_vars

(***************************************************************************)
(* Properties of blocks, closures, calls and returns, checked under Spec.  *)
(***************************************************************************)
\* Two chains are the same environment: the same scopes holding the same
\* declarations (the values may have been assigned).
SameEnvironment(e1, e2) ==
    /\ Len(e1) = Len(e2)
    /\ \A i \in 1..Len(e1) : \A nm \in Names : e1[i][nm].o = e2[i][nm].o
                                              /\ (e1[i][nm].v = NoVal
                                                  <=> e2[i][nm].v = NoVal)

\* C1: whenever execute_block returns for a block statement, by normal
\* completion, a propagating Return signal or a runtime error, the current
\* environment is again the one that was current before the block.
C1_BlockExitRestores ==
    lastExit.how # "none" => SameEnvironment(lastExit.after, lastExit.saved)

C4_ClosureShared ==
    (status = "running" /\ call_index(frames) = 0) =>
        \A id \in 1..Len(functions) : \A nm \in VarNames :
            LET c == get(functions[id].closure, nm)
                e == get(environment, nm)
            IN  (c.v # NoVal /\ c.o = e.o) => c.v = e.v

C10_BadCallFails ==
    (/\ attempt.callee # NoVal
     /\ \/ attempt.callee.kind \notin {"fn", "native", "class"}
        \/ attempt.argc # arity(attempt.callee)) =>
        /\ attempt.failed
        /\ ~attempt.entered
        /\ attempt.bound = 0
        /\ status = "unwinding"
        /\ signal = ErrorSignal

\* A user function was called with the wrong number of arguments.
C10_Witness ==
    /\ attempt.failed
    /\ attempt.callee.kind = "fn"
    /\ attempt.argc # arity(attempt.callee)

\* C12: an assignment to a name that no environment of the current chain
\* binds raises a runtime error and leaves every environment as it was: no
\* binding is made, no value changes.
C12_UndefinedAssignFails ==
    (/\ lastAssign.name # "none"
     /\ get(lastAssign.before, lastAssign.name) = NoBinding) =>
        /\ ~lastAssign.ok
        /\ status = "unwinding"
        /\ signal = ErrorSignal
        /\ lastAssign.after = lastAssign.before
        /\ environment = lastAssign.before

\* An assignment to an undeclared variable failed inside a block.
C12_Witness ==
    /\ lastAssign.name \in VarNames
    /\ ~lastAssign.ok
    /\ get(lastAssign.before, lastAssign.name) = NoBinding
    /\ Len(lastAssign.before) > 2
    /\ status = "unwinding"

(***************************************************************************)
(* Properties of the logical operators, checked under SpecLogical.         *)
(***************************************************************************)
\* C9: `a or b` with a truthy and `a and b` with a falsy give the value of
\* a itself and never evaluate b; in the other cases the result is that of
\* b, the operand's own value and not a boolean made from it.
C9_ShortCircuit ==
    (outcome.done /\ evaluate(expr.left).ok) =>
        LET a == evaluate(expr.left)
            b == evaluate(expr.right)
            a_truthy == a.v \notin {Nil, Bool(FALSE)}
        IN  IF (expr.op = "or" /\ a_truthy) \/ (expr.op = "and" /\ ~a_truthy)
            THEN /\ outcome.ok
                 /\ outcome.v = a.v
                 /\ outcome.visited \cap sites(expr.right) = {}
            ELSE /\ outcome.ok = b.ok
                 /\ outcome.v = b.v
                 /\ outcome.visited = a.visited \cup b.visited

\* `false and (1 / 0)` gave false without a division error.
C9_Witness ==
    /\ outcome.done
    /\ outcome.ok
    /\ expr.op = "and"
    /\ expr.left = Lit(Bool(FALSE), 1)
    /\ expr.right = DivExpr(0, 2)
    /\ outcome.v = Bool(FALSE)

(***************************************************************************)
(* Properties of the operators, checked under SpecOperators.               *)
(***************************************************************************)
\* C13: a comparison with `<`, `<=`, `>` or `>=` gives a boolean, that of
\* the numeric order, only when both operands are numbers; with any other
\* operand it is a runtime error.
C13_ComparisonNeedsNumbers ==
    (outcome.done /\ expr.node = "binary_op") =>
        LET l == expr.left.v
            r == expr.right.v
        IN  IF l.kind = "num" /\ r.kind = "num"
            THEN /\ outcome.ok
                 /\ outcome.v = Bool(CASE expr.op = "<" -> l.n < r.n
                                       [] expr.op = "<=" -> l.n <= r.n
                                       [] expr.op = ">" -> l.n > r.n
                                       [] expr.op = ">=" -> l.n >= r.n)
            ELSE ~outcome.ok

C15_ParseErrorStopsRun ==
    (ran.done /\ ran.errors > 0) => ran.executed = <<>>

\* C18: `a ? b : c ? d : e` is parsed as Ternary(a, b, Ternary(c, d, e)),
\* and with a truthy a its value is b and none of c, d and e is evaluated.
C18_TernaryRightAssociative ==
    (ran.done /\ SubSeq(tokens, 1, Len(tokens) - 1) \in TernaryPrograms) =>
        /\ ran.errors = 0
        /\ Len(ran.statements) = 1
        /\ ran.statements[1].expr =
              Ternary(Lit(tokens[2].v, 2), Lit(tokens[4].v, 4),
                      Ternary(Lit(tokens[6].v, 6), Lit(tokens[8].v, 8),
                              Lit(tokens[10].v, 10)))
        /\ tokens[2].v \notin {Nil, Bool(FALSE)} =>
              /\ ran.executed[1].ok
              /\ ran.executed[1].v = tokens[4].v
              /\ ran.executed[1].visited = {2, 4}

\* Where the cursor is to be after an error detected at position at: past
\* the first `;` from there on, or at the first keyword after it that starts
\* a statement, or at Eof.
RECURSIVE sync_target(_, _, _)
sync_target(toks, at, i) ==
    IF toks[i].type = "Eof" THEN i
    ELSE IF toks[i].type = ";" THEN i + 1
    ELSE IF i > at /\ toks[i].type = "print" THEN i
    ELSE sync_target(toks, at, i + 1)

\* C26: after a parse error, synchronize leaves the cursor just past the
\* first `;` at or after the token where the error was detected, or at the
\* first keyword after it, whichever comes first: nothing of a later
\* statement is skipped.
C26_SynchronizePosition ==
    ran.done =>
        \A i \in DOMAIN ran.syncs :
            ran.syncs[i].to =
                sync_target(tokens, ran.syncs[i].at, ran.syncs[i].at)

(***************************************************************************)
(* Properties checked under SpecScanner.                                   *)
(***************************************************************************)
\* C16: every token sequence a successful scan_tokens returns ends with Eof,
\* and holds exactly one Eof, whatever the input, the empty one included.
C16_EndsWithEof ==
    (scanned.done /\ scanned.ok) =>
        /\ scanned.tokens # <<>>
        /\ scanned.tokens[Len(scanned.tokens)].t_type = "Eof"
        /\ Cardinality({i \in DOMAIN scanned.tokens :
                            scanned.tokens[i].t_type = "Eof"}) = 1

\* C17: when a lexical error was met, scan_tokens returns the list of all
\* the errors met and no token list; it returns tokens only when none was.
C17_ErrorsReturned ==
    (scanned.done /\ ~scanned.panicked) =>
        /\ scanned.error_list # <<>> =>
               (~scanned.ok /\ scanned.errors = scanned.error_list)
        /\ scanned.ok => scanned.error_list = <<>>

(***************************************************************************)
(* Properties checked under SpecResolver.                                  *)
(***************************************************************************)
\* The innermost declaration of the given kinds the resolver is inside of.
RECURSIVE innermost(_, _)
innermost(nest, kinds) ==
    IF nest = <<>>
    THEN [kind |-> "none", name |-> "none", has_superclass |-> FALSE]
    ELSE IF nest[Len(nest)].kind \in kinds
         THEN nest[Len(nest)]
         ELSE innermost(SubSeq(nest, 1, Len(nest) - 1), kinds)

enclosing_class == innermost(nesting, {"class"})
enclosing_function == innermost(nesting, {"function", "method"})

\* C19: a `return` with a value in a method named init is a static error.
C19_InitReturnRejected ==
    (/\ resolved.node = "return"
     /\ resolved.has_value
     /\ enclosing_function.kind = "method"
     /\ enclosing_function.name = "init") => ~resolved.ok

\* C20: `self` outside of every class declaration is a static error, and so
\* is `super` outside of every class declaration or in a class that names
\* no superclass, also in the code that follows a class declaration.
C20_SelfSuperRejected ==
    /\ (resolved.node = "self" /\ enclosing_class.kind = "none")
           => ~resolved.ok
    /\ (resolved.node = "super" /\ ~enclosing_class.has_superclass)
           => ~resolved.ok

\* C20, its case: a `self` at top level, after a class declaration has
\* ended, was rejected.
C20_Witness ==
    /\ resolved.node = "self"
    /\ resolved.after_class
    /\ nesting = <<>>
    /\ ~resolved.ok

\* The number of double quotes in an input.  Without escapes or comments
\* the quotes pair up from the left, so with an odd number of them the
\* last one opens a string that is not closed.
RECURSIVE quotes(_)
quotes(d) ==
    IF d = <<>> THEN 0
    ELSE (IF d[1] = "\"" THEN 1 ELSE 0) + quotes(Tail(d))

string_tokens(toks) == {i \in DOMAIN toks : toks[i].t_type = "Ident"}

\* C27: an input with a string literal that is not closed gives the error
\* UnterminatedString, and no token for that literal.
C27_UnterminatedString ==
    (scanned.done /\ quotes(data) % 2 = 1) =>
        /\ ~scanned.panicked
        /\ \E i \in DOMAIN scanned.error_list :
               scanned.error_list[i] = "UnterminatedString"
        /\ Cardinality(string_tokens(scanned.tokens)) = quotes(data) \div 2

(***************************************************************************)
(* Properties checked under SpecEnvironment.                               *)
(***************************************************************************)
\* C30: the value insert_at(d, name, v) has written is the value that
\* get_at(d, name) then returns, whichever environments bind the name.
C30_GetAtReadsInsertAt ==
    (probe.done /\ probe.ok) => probe.got.v = probe.v

(***************************************************************************)
(* Properties of instances, classes and super, checked under SpecClass.    *)
(***************************************************************************)
\* A class followed by its ancestors, the nearest first.
RECURSIVE ancestry(_, _)
ancestry(table, c) ==
    IF c = 0 THEN <<>> ELSE <<c>> \o ancestry(table, table[c].superclass)

\* The nearest class of a chain that declares the method, 0 if none does.
nearest_declaring(table, chain, name) ==
    LET declaring == {i \in 1..Len(chain) : name \in table[chain[i]].methods}
    IN  IF declaring = {} THEN 0
        ELSE chain[CHOOSE i \in declaring : \A j \in declaring : i <= j]

\* C5: once `o.f = v` has succeeded (also `self.f = v` in the init method
\* that made the instance bound to o), reading `o.f` yields v until f is
\* written again.
C5_WriteThenRead ==
    cstatus = "running" =>
        \A f \in FieldNames :
            written[f] # NoVal =>
                visit_get(classTable, cenv, f) =
                    [ok |-> TRUE, v |-> written[f]]

\* C6: a property read gives the instance's field if it has one, else the
\* method of the nearest class that declares it among the instance's class
\* and its ancestors, bound to the instance, else a runtime error.
C6_PropertyReadOrder ==
    (lastGet.key # "none" /\ lastGet.recv.kind = "instance") =>
        LET instance == lastGet.recv
            owner == nearest_declaring(classTable,
                                       ancestry(classTable, instance.n),
                                       lastGet.key)
        IN  IF lastGet.key \in FieldNames
               /\ instance.fields[lastGet.key] # NoVal
            THEN lastGet.ok /\ lastGet.v = instance.fields[lastGet.key]
            ELSE IF owner # 0
            THEN lastGet.ok /\ lastGet.v = Bound(owner, lastGet.key, instance)
            ELSE ~lastGet.ok /\ cstatus = "error"

\* A read found the method two classes up while the class in between does
\* not declare it.
C6_Witness ==
    /\ lastGet.key # "none"
    /\ lastGet.ok
    /\ lastGet.v.kind = "fn"
    /\ lastGet.v.n # lastGet.recv.n
    /\ lastGet.v.n # classTable[lastGet.recv.n].superclass

\* C7: `super.m` in a method of a class whose superclass (or an ancestor of
\* it) declares m yields that method, the nearest from the superclass up,
\* bound to the receiver: not an error, not nil, not the class's own m.
C7_SuperYieldsMethod ==
    lastSuper.evaluated =>
        LET owner == nearest_declaring(
                         classTable,
                         ancestry(classTable,
                                  classTable[lastSuper.cls].superclass),
                         lastSuper.name)
        IN  owner # 0 =>
                /\ lastSuper.ok
                /\ lastSuper.v = Bound(owner, lastSuper.name, lastSuper.recv)

\* The same for a super expression nested in at most one block.
C7_ShallowOnly ==
    (lastSuper.evaluated /\ lastSuper.depth <= 1) => C7_SuperYieldsMethod

\* C11: the arity of a class call is the parameter count of the init method
\* of the nearest class that declares one among the class and its ancestors,
\* 0 when none does; a call with that many arguments succeeds and returns an
\* instance of the called class.
C11_ClassCall ==
    lastNew.called =>
        LET owner == nearest_declaring(classTable,
                                       ancestry(classTable, lastNew.cls),
                                       "init")
        IN  /\ lastNew.init = owner
            /\ lastNew.arity = (IF owner = 0 THEN 0 ELSE 1)
            /\ lastNew.argc = lastNew.arity =>
                   /\ lastNew.ok
                   /\ lastNew.v.kind = "instance"
                   /\ lastNew.v.n = lastNew.cls

\* C24: the distance the resolver records for a use site leads, walked
\* link by link from the environment that is current when the evaluator
\* reaches the use site, to an environment that binds the name itself.
C24_DistanceReachesBinding ==
    /\ lastAssign.name # "none" =>
           LET distance == resolve_local(scopes, lastAssign.name)
               chain == lastAssign.before
           IN  distance >= 0 =>
                   /\ distance < Len(chain)
                   /\ chain[Len(chain) - distance][lastAssign.name].v # NoVal
    /\ lastRead # NoRead =>
           environment[Len(environment)][lastRead.name].v # NoVal

====
